---- MODULE Spec2Model ----
(***************************************************************************)
(* Model of the blob memory of falco-home-security (plugin/detect.go):     *)
(* the store of known blobs (BlobList) and its per-frame Update, made of   *)
(* refreshConfidence (decay and eviction), findNearestIndex (association)  *)
(* and mergeAtIndex (override and position smoothing).                     *)
(*                                                                         *)
(* float64 values are modelled as exact rationals plus NaN.  Every         *)
(* configuration value and every confidence of the model is a dyadic       *)
(* rational with a few bits, for which float64 multiplication, addition    *)
(* and comparison are exact; the only quotients the code computes are      *)
(* min/max of two ints, compared against dyadic thresholds.                *)
(***************************************************************************)
EXTENDS Integers, Sequences, FiniteSets, TLC

----------------------------------------------------------------------------
(* Bounds of the model *)

\* number of observations handed to the store in one behaviour
MaxTotalObs == 4

\* longest list of observations handed to one Update call
MaxObs == 2

\* longest run of consecutive Update calls without observations
MaxIdle == 5

\* number of observations handed to the store before the scene goes quiet
MaxForgetObs == 2

\* number of observations handed to the store under the default configuration
MaxDefaultObs == 3

\* number of observations the detection loop hands to the store
MaxLoopObs == 3

\* the class ids run from -MaxClassId to MaxClassId
MaxClassId == 100

\* width and height of a frame, in pixels
FrameSize == 4

\* longest side of a box whose center is measured
MaxSide == 4

\* largest left and top offset of a box whose center is measured
MaxOffset == 1

\* number of frames the video source of a session delivers at most
MaxFrames == 2

\* largest size of a Ring
MaxRingSize == 3

\* number of Push calls on a Ring
MaxPushes == 4

\* the values pushed into a Ring run from 0 to MaxRingValue
MaxRingValue == 2

\* the field ids handed to Extract run from 0 to MaxFieldId
MaxFieldId == 3

\* largest number of blobs in the payload handed to Extract
MaxPayloadBlobs == 2

\* number of frames the video source of the standalone program delivers at most
MaxStandaloneFrames == 2

----------------------------------------------------------------------------
(* float64 as exact rationals n/d (d > 0, lowest terms) plus NaN *)

RECURSIVE GCD(_, _)
GCD(a, b) == IF b = 0 THEN a ELSE GCD(b, a % b)

AbsInt(a) == IF a < 0 THEN -a ELSE a

NaN == [nan |-> TRUE, n |-> 0, d |-> 1]

F(n, d) ==
    LET g == GCD(AbsInt(n), d)
    IN  IF n = 0 THEN [nan |-> FALSE, n |-> 0, d |-> 1]
        ELSE [nan |-> FALSE, n |-> n \div g, d |-> d \div g]

\* float64(a) / float64(b) for ints a, b: 0/0 is NaN.  A nonzero numerator
\* over zero (an infinity) needs a box with Right < Left or Bottom < Top,
\* which the observations of this model never have.
FDivInt(a, b) ==
    CASE b = 0 /\ a = 0 -> NaN
      [] b > 0 -> F(a, b)
      [] b < 0 -> F(-a, -b)

FMul(x, y) == IF x.nan \/ y.nan THEN NaN ELSE F(x.n * y.n, x.d * y.d)

FAdd(x, y) == IF x.nan \/ y.nan THEN NaN ELSE F(x.n * y.d + y.n * x.d, x.d * y.d)

\* comparisons with a NaN operand are false
FGt(x, y) == ~x.nan /\ ~y.nan /\ x.n * y.d > y.n * x.d

FGe(x, y) == ~x.nan /\ ~y.nan /\ x.n * y.d >= y.n * x.d

FLe(x, y) == FGe(y, x)

\* Go's integer division truncates toward zero
GoDiv(a, b) == IF a >= 0 THEN a \div b ELSE -((-a) \div b)

----------------------------------------------------------------------------
(* Categories *)

\* the iota values of the CategoryID constants
Unknown == 0

Human == 1

Vehicle == 2

Outdoor == 3

Animal == 4

Accessory == 5

Sports == 6

Kitchen == 7

Food == 8

Furniture == 9

Electronic == 10

Appliance == 11

Indoor == 12

categoryRange(start, end) == [start |-> start, end |-> end]

\* mutant: the range of Vehicle starts one id early
categoryRangesOverlapping ==
    [c \in Human..Indoor |->
        CASE c = Human      -> categoryRange(1, 1)
          [] c = Vehicle    -> categoryRange(1, 9)
          [] c = Outdoor    -> categoryRange(10, 15)
          [] c = Animal     -> categoryRange(16, 25)
          [] c = Accessory  -> categoryRange(26, 33)
          [] c = Sports     -> categoryRange(34, 43)
          [] c = Kitchen    -> categoryRange(44, 51)
          [] c = Food       -> categoryRange(52, 61)
          [] c = Furniture  -> categoryRange(62, 71)
          [] c = Electronic -> categoryRange(72, 77)
          [] c = Appliance  -> categoryRange(78, 83)
          [] c = Indoor     -> categoryRange(84, 91)]

categoryRanges ==
    [c \in Human..Indoor |->
        CASE c = Human      -> categoryRange(1, 1)
          [] c = Vehicle    -> categoryRange(2, 9)
          [] c = Outdoor    -> categoryRange(10, 15)
          [] c = Animal     -> categoryRange(16, 25)
          [] c = Accessory  -> categoryRange(26, 33)
          [] c = Sports     -> categoryRange(34, 43)
          [] c = Kitchen    -> categoryRange(44, 51)
          [] c = Food       -> categoryRange(52, 61)
          [] c = Furniture  -> categoryRange(62, 71)
          [] c = Electronic -> categoryRange(72, 77)
          [] c = Appliance  -> categoryRange(78, 83)
          [] c = Indoor     -> categoryRange(84, 91)]

\* the categories the store handles, with their names
Categories == (Human :> "Human") @@ (Animal :> "Animal")

Known(c) == c \in DOMAIN Categories

\* ParseClassID ranges over a map, whose iteration order Go leaves open: the
\* set of the categories it can return for classId
ParseClassID(classId) ==
    LET hits == {c \in DOMAIN categoryRanges :
                    categoryRanges[c].start <= classId /\ classId <= categoryRanges[c].end}
    IN  IF hits = {} THEN {Unknown} ELSE hits

----------------------------------------------------------------------------
(* Geometry helpers *)

minInt(a, b) == IF a < b THEN a ELSE b

maxInt(a, b) == IF a > b THEN a ELSE b

Center(p) == [x |-> GoDiv(p.Right - p.Left, 2), y |-> GoDiv(p.Bottom - p.Top, 2)]

\* mutant: the second factor is computed from the x coordinates too
NearOfXOnly(b, other) ==
    LET xDiff == FDivInt(minInt(b.x, other.x), maxInt(b.x, other.x))
    IN  FMul(xDiff, xDiff)

Near(b, other) ==
    LET xDiff == FDivInt(minInt(b.x, other.x), maxInt(b.x, other.x))
        yDiff == FDivInt(minInt(b.y, other.y), maxInt(b.y, other.y))
    IN  FMul(xDiff, yDiff)

----------------------------------------------------------------------------
(* The store: a Go slice of Blob, as a sequence.  Go indexes are 0-based:   *)
(* b.blobs[i] is blobs[i + 1].                                              *)

RECURSIVE findNearestLoop(_, _, _, _, _, _)
findNearestLoop(bl, merged, blobFindNearestThreshold, i, maxNearness, maxIndex) ==
    IF i >= Len(bl) THEN maxIndex
    ELSE
        \* `for i, blob := range b.blobs` declares a new blob that shadows
        \* the parameter: both centers are the known blob's own center.
        LET blob == bl[i + 1]
            nearness == Near(Center(blob.Position), Center(blob.Position))
        IN  IF i \notin merged
               /\ FGt(nearness, blobFindNearestThreshold)
               /\ FGt(nearness, maxNearness)
            THEN findNearestLoop(bl, merged, blobFindNearestThreshold, i + 1, nearness, i)
            ELSE findNearestLoop(bl, merged, blobFindNearestThreshold, i + 1, maxNearness, maxIndex)

\* mutant: the merged map is not consulted
findNearestIndexIgnoringMerged(bl, blob, merged, blobFindNearestThreshold) ==
    findNearestLoop(bl, {}, blobFindNearestThreshold, 0, F(0, 1), -1)

findNearestIndex(bl, blob, merged, blobFindNearestThreshold) ==
    findNearestLoop(bl, merged, blobFindNearestThreshold, 0, F(0, 1), -1)

\* The body of mergeAtIndex with its variation points as parameters: strict
\* makes the override test >, always assigns the category outside the
\* test, and slip averages Bottom against the new blob's Top.
mergeWith(bl, blob, index, blobMergeConfidenceThreshold, strict, always, slip) ==
    LET known == bl[index + 1]
        sum == FAdd(known.Confidence, blobMergeConfidenceThreshold)
        fire == IF strict THEN FGt(blob.Confidence, sum) ELSE FGe(blob.Confidence, sum)
        pos == [Top    |-> GoDiv(known.Position.Top + blob.Position.Top, 2),
                Left   |-> GoDiv(known.Position.Left + blob.Position.Left, 2),
                Bottom |-> GoDiv(known.Position.Bottom
                                 + (IF slip THEN blob.Position.Top ELSE blob.Position.Bottom), 2),
                Right  |-> GoDiv(known.Position.Right + blob.Position.Right, 2)]
        after == [Category   |-> IF fire \/ always THEN blob.Category ELSE known.Category,
                  Confidence |-> IF fire THEN blob.Confidence ELSE known.Confidence,
                  Position   |-> pos]
    IN  [blobs   |-> [bl EXCEPT ![index + 1] = after],
         changed |-> fire /\ known.Category # blob.Category]

\* mutant: the override needs a strictly greater confidence
mergeAtIndexStrict(bl, blob, index, blobMergeConfidenceThreshold) ==
    mergeWith(bl, blob, index, blobMergeConfidenceThreshold, TRUE, FALSE, FALSE)

\* mutant: the category is assigned outside the override test
mergeAtIndexAlwaysCategory(bl, blob, index, blobMergeConfidenceThreshold) ==
    mergeWith(bl, blob, index, blobMergeConfidenceThreshold, FALSE, TRUE, FALSE)

\* mutant: Bottom is averaged against the new blob's Top
mergeAtIndexBottomSlip(bl, blob, index, blobMergeConfidenceThreshold) ==
    mergeWith(bl, blob, index, blobMergeConfidenceThreshold, FALSE, FALSE, TRUE)

\* mutant: the averaged coordinates are rounded up
mergeAtIndexRoundsUp(bl, blob, index, blobMergeConfidenceThreshold) ==
    LET m == mergeWith(bl, blob, index, blobMergeConfidenceThreshold, FALSE, FALSE, FALSE)
        known == bl[index + 1]
    IN  [m EXCEPT !.blobs[index + 1].Position =
             [Top    |-> GoDiv(known.Position.Top + blob.Position.Top + 1, 2),
              Left   |-> GoDiv(known.Position.Left + blob.Position.Left + 1, 2),
              Bottom |-> GoDiv(known.Position.Bottom + blob.Position.Bottom + 1, 2),
              Right  |-> GoDiv(known.Position.Right + blob.Position.Right + 1, 2)]]

\* mutant: the override assigns the category but not the confidence
mergeAtIndexKeepsConfidence(bl, blob, index, blobMergeConfidenceThreshold) ==
    LET m == mergeWith(bl, blob, index, blobMergeConfidenceThreshold, FALSE, FALSE, FALSE)
    IN  [m EXCEPT !.blobs[index + 1].Confidence = bl[index + 1].Confidence]

\* mergeAtIndex: the store after the merge, and the value it returns
mergeAtIndex(bl, blob, index, blobMergeConfidenceThreshold) ==
    LET known == bl[index + 1]
        fire == FGe(blob.Confidence, FAdd(known.Confidence, blobMergeConfidenceThreshold))
        pos == [Top    |-> GoDiv(known.Position.Top + blob.Position.Top, 2),
                Left   |-> GoDiv(known.Position.Left + blob.Position.Left, 2),
                Bottom |-> GoDiv(known.Position.Bottom + blob.Position.Bottom, 2),
                Right  |-> GoDiv(known.Position.Right + blob.Position.Right, 2)]
        after == [Category   |-> IF fire THEN blob.Category ELSE known.Category,
                  Confidence |-> IF fire THEN blob.Confidence ELSE known.Confidence,
                  Position   |-> pos]
    IN  [blobs   |-> [bl EXCEPT ![index + 1] = after],
         changed |-> fire /\ known.Category # blob.Category]

RECURSIVE refreshLoop(_, _, _, _, _)
refreshLoop(bl, blobConfidenceRefreshRatio, blobConfidenceRefreshThreshold, i, newBlobs) ==
    IF i > Len(bl) THEN newBlobs
    ELSE
        LET blob == [bl[i] EXCEPT !.Confidence = FMul(@, blobConfidenceRefreshRatio)]
        IN  refreshLoop(bl, blobConfidenceRefreshRatio, blobConfidenceRefreshThreshold, i + 1,
                        IF FGt(blob.Confidence, blobConfidenceRefreshThreshold)
                        THEN Append(newBlobs, blob) ELSE newBlobs)

\* the known blobs with their confidence multiplied by the ratio
Decayed(bl, ratio) ==
    [i \in 1..Len(bl) |-> [bl[i] EXCEPT !.Confidence = FMul(@, ratio)]]

\* mutant: a blob whose confidence equals the threshold is kept
refreshConfidenceKeepsEqual(bl, blobConfidenceRefreshRatio, blobConfidenceRefreshThreshold) ==
    SelectSeq(Decayed(bl, blobConfidenceRefreshRatio),
              LAMBDA e : FGe(e.Confidence, blobConfidenceRefreshThreshold))

\* mutant: the threshold is tested on the confidence before the decay
refreshConfidenceTestsFirst(bl, blobConfidenceRefreshRatio, blobConfidenceRefreshThreshold) ==
    Decayed(SelectSeq(bl, LAMBDA e : FGt(e.Confidence, blobConfidenceRefreshThreshold)),
            blobConfidenceRefreshRatio)

\* mutant: the product is compared with the threshold but not stored
refreshConfidenceNoDecay(bl, blobConfidenceRefreshRatio, blobConfidenceRefreshThreshold) ==
    SelectSeq(bl, LAMBDA e : FGt(FMul(e.Confidence, blobConfidenceRefreshRatio),
                                 blobConfidenceRefreshThreshold))

\* mutant: the survivors are kept in reverse order
refreshConfidenceReversed(bl, blobConfidenceRefreshRatio, blobConfidenceRefreshThreshold) ==
    LET kept == refreshLoop(bl, blobConfidenceRefreshRatio, blobConfidenceRefreshThreshold, 1, <<>>)
    IN  [i \in 1..Len(kept) |-> kept[Len(kept) + 1 - i]]

refreshConfidence(bl, blobConfidenceRefreshRatio, blobConfidenceRefreshThreshold) ==
    refreshLoop(bl, blobConfidenceRefreshRatio, blobConfidenceRefreshThreshold, 1, <<>>)

\* mutant: the index is recorded whatever MemoryCollapseMultiple says
markMergedAlways(merged, nearestIndex, c) == merged \cup {nearestIndex}

\* mutant: the index is never recorded
markMergedNever(merged, nearestIndex, c) == merged

\* Update's bookkeeping after a merge: merged[nearestIndex] = true unless
\* the configuration collapses multiple observations
markMerged(merged, nearestIndex, c) ==
    IF ~c.MemoryCollapseMultiple THEN merged \cup {nearestIndex} ELSE merged

\* mutant: the result of the last merge overwrites changed
accumulateLast(changed, mergeChanged) == mergeChanged

\* Update's `if b.mergeAtIndex(...) { changed = true }`
accumulate(changed, mergeChanged) == IF mergeChanged THEN TRUE ELSE changed

\* The loop of Update over the observations.  Besides the store, the merged
\* map (the set of its true keys) and the value to return, it records one
\* step per observation: what findNearestIndex returned and the store and
\* the merged map before and after that observation.
RECURSIVE UpdateLoop(_, _, _, _, _, _, _)
UpdateLoop(bl, blobsIn, k, merged, changed, steps, c) ==
    IF k > Len(blobsIn)
    THEN [blobs |-> bl, changed |-> changed, steps |-> steps, merged |-> merged]
    ELSE
        LET blob == blobsIn[k]
            nearestIndex == findNearestIndex(bl, blob, merged, c.MemoryNearnessThreshold)
            m == mergeAtIndex(bl, blob, nearestIndex, c.MemoryClassSwitchThreshold)
            bl2 == IF nearestIndex < 0 THEN Append(bl, blob) ELSE m.blobs
            changed2 == IF nearestIndex < 0 THEN TRUE ELSE accumulate(changed, m.changed)
            merged2 == IF nearestIndex < 0 THEN merged ELSE markMerged(merged, nearestIndex, c)
            step == [blob |-> blob, nearestIndex |-> nearestIndex,
                     before |-> bl, after |-> bl2, merged |-> merged]
        IN  UpdateLoop(bl2, blobsIn, k + 1, merged2, changed2, Append(steps, step), c)

\* mutant: the decay runs after the observations were added
UpdateRefreshLast(bl, blobsIn, c) ==
    LET r == UpdateLoop(bl, blobsIn, 1, {}, FALSE, <<>>, c)
    IN  [blobs |-> refreshConfidence(r.blobs, c.MemoryDecayFactor, c.MemoryMinConfidence),
         changed |-> r.changed, steps |-> r.steps, refreshed |-> bl]

\* mutant: a call without observations returns before the decay
UpdateSkipsEmpty(bl, blobsIn, c) ==
    IF blobsIn = <<>>
    THEN [blobs |-> bl, changed |-> FALSE, steps |-> <<>>, refreshed |-> bl]
    ELSE LET refreshedBlobs == refreshConfidence(bl, c.MemoryDecayFactor, c.MemoryMinConfidence)
             r == UpdateLoop(refreshedBlobs, blobsIn, 1, {}, FALSE, <<>>, c)
         IN  [blobs |-> r.blobs, changed |-> r.changed, steps |-> r.steps,
              refreshed |-> refreshedBlobs]

Update(bl, blobsIn, c) ==
    LET refreshed == refreshConfidence(bl, c.MemoryDecayFactor, c.MemoryMinConfidence)
        r == UpdateLoop(refreshed, blobsIn, 1, {}, FALSE, <<>>, c)
    IN  [blobs |-> r.blobs, changed |-> r.changed, steps |-> r.steps,
         refreshed |-> refreshed]

----------------------------------------------------------------------------
(* Inputs *)

Pos(l, t, r, b) == [Left |-> l, Top |-> t, Right |-> r, Bottom |-> b]

Blob(c, f, p) == [Category |-> c, Confidence |-> f, Position |-> p]

\* The observations a frame can hold.  Centers: (1,2), (2,2), (1,1) and
\* (0,0); the last box is too small to have a nonzero center.
Observations ==
    { Blob(Human,  F(1, 1), Pos(0, 0, 2, 4)),
      Blob(Animal, F(3, 4), Pos(1, 0, 5, 4)),
      Blob(Human,  F(1, 4), Pos(0, 0, 2, 2)),
      Blob(Animal, F(1, 1), Pos(1, 1, 2, 2)) }

RECURSIVE ObsLists(_)
ObsLists(n) ==
    IF n = 0 THEN {<<>>}
    ELSE ObsLists(n - 1) \cup
         {Append(l, o) : l \in {x \in ObsLists(n - 1) : Len(x) = n - 1}, o \in Observations}

\* the lists of observations one Update call can be handed
Inputs == ObsLists(MaxObs)

\* The configurations: dyadic stand-ins for the defaults (floor 0.50,
\* decay 0.98, nearness 0.65, class switch 0.15), with either setting of
\* memoryCollapseMultiple.
Configs ==
    { [MinConfidence              |-> F(1, 2),
       MemoryMinConfidence        |-> F(1, 4),
       MemoryDecayFactor          |-> d,
       MemoryNearnessThreshold    |-> F(1, 4),
       MemoryClassSwitchThreshold |-> F(1, 4),
       MemoryCollapseMultiple     |-> cm] : d \in {F(1, 2), F(3, 4)}, cm \in BOOLEAN }

\* The default configuration: 0.75, 0.50, 0.98, 0.65, 0.15, true.
DefaultConfig ==
    [MinConfidence              |-> F(3, 4),
     MemoryMinConfidence        |-> F(1, 2),
     MemoryDecayFactor          |-> F(49, 50),
     MemoryNearnessThreshold    |-> F(13, 20),
     MemoryClassSwitchThreshold |-> F(3, 20),
     MemoryCollapseMultiple     |-> TRUE]

\* Observations on a frame of a camera: a person seen at 0.80, 0.82 and
\* 0.66, and an animal seen at 1.0.
DefaultObservations ==
    { Blob(Human,  F(4, 5),   Pos(0, 0, 100, 100)),
      Blob(Human,  F(41, 50), Pos(5, 5, 105, 105)),
      Blob(Human,  F(33, 50), Pos(0, 0, 100, 100)),
      Blob(Animal, F(1, 1),   Pos(10, 10, 20, 20)) }

RECURSIVE ListsOf(_, _)
ListsOf(S, n) ==
    IF n = 0 THEN {<<>>}
    ELSE ListsOf(S, n - 1) \cup
         {Append(l, o) : l \in {x \in ListsOf(S, n - 1) : Len(x) = n - 1}, o \in S}

\* the nonempty lists of observations of the default scenario
DefaultInputs == ListsOf(DefaultObservations, MaxObs) \ {<<>>}

----------------------------------------------------------------------------
(* The detector's output and performBlob *)

\* int(x * float32(n)) for a coordinate x of the detector and a frame size n
Scale(x, n) == LET y == FMul(x, F(n, 1)) IN GoDiv(y.n, y.d)

\* one row of the detector's output: [batchId, classId, confidence, left,
\* top, right, bottom], without the batch id
Detection(classId, confidence, left, top, right, bottom) ==
    [classId |-> classId, confidence |-> confidence,
     left |-> left, top |-> top, right |-> right, bottom |-> bottom]

RECURSIVE performBlobLoop(_, _, _, _, _, _, _)
performBlobLoop(frame, results, minConfidence, i, blobsOut, dropUnknown, atLeast) ==
    IF i > Len(results) THEN {blobsOut}
    ELSE
        LET row == results[i]
            pos == [Left   |-> Scale(row.left, frame.Cols),
                    Top    |-> Scale(row.top, frame.Rows),
                    Right  |-> Scale(row.right, frame.Cols),
                    Bottom |-> Scale(row.bottom, frame.Rows)]
        IN  IF FGt(row.confidence, minConfidence)
               \/ (atLeast /\ row.confidence = minConfidence)
            THEN UNION { performBlobLoop(frame, results, minConfidence, i + 1,
                             IF Known(c) \/ ~dropUnknown
                             THEN Append(blobsOut, Blob(c, row.confidence, pos))
                             ELSE blobsOut, dropUnknown, atLeast) :
                         c \in ParseClassID(row.classId) }
            ELSE performBlobLoop(frame, results, minConfidence, i + 1, blobsOut,
                                 dropUnknown, atLeast)

\* mutant: the category of a detection is not tested
performBlobKeepsAll(frame, results, minConfidence) ==
    performBlobLoop(frame, results, minConfidence, 1, <<>>, FALSE, FALSE)

\* mutant: a detection at exactly the minimum confidence is kept
performBlobAtLeast(frame, results, minConfidence) ==
    performBlobLoop(frame, results, minConfidence, 1, <<>>, TRUE, TRUE)

\* performBlob: the lists of observations it can return for the results
performBlob(frame, results, minConfidence) ==
    performBlobLoop(frame, results, minConfidence, 1, <<>>, TRUE, FALSE)

\* the frame of the camera
Frame == [Cols |-> FrameSize, Rows |-> FrameSize]

\* The rows the detector can output: a person, a cat, a car and an unknown
\* class at full confidence or above the minimum, and a dog at exactly the
\* minimum confidence.
Detections ==
    { Detection(1,  F(1, 1), F(0, 1), F(0, 1), F(1, 2), F(1, 1)),
      Detection(17, F(3, 4), F(1, 4), F(0, 1), F(1, 1), F(1, 1)),
      Detection(3,  F(1, 1), F(0, 1), F(0, 1), F(1, 2), F(1, 2)),
      Detection(18, F(1, 2), F(1, 4), F(1, 4), F(1, 2), F(1, 2)),
      Detection(0,  F(3, 4), F(1, 4), F(1, 4), F(3, 4), F(3, 4)) }

\* the outputs of one forward pass of the network
Results == ListsOf(Detections, MaxObs)

\* the class ids ParseClassID is handed
ClassIds == (-MaxClassId)..MaxClassId

----------------------------------------------------------------------------
(* Boxes whose centers are measured against each other *)

Boxes ==
    { Pos(l, MaxOffset - l, l + w, MaxOffset - l + h) :
        l \in 0..MaxOffset, w \in 0..MaxSide, h \in 0..MaxSide }

\* two boxes before anything is computed from them
Unmeasured(boxA, boxB) ==
    [boxA |-> boxA, boxB |-> boxB, done |-> FALSE,
     centerA |-> [x |-> 0, y |-> 0], centerB |-> [x |-> 0, y |-> 0],
     near |-> NaN, nearBack |-> NaN]

\* Center of both boxes and Near in both directions
Measure(boxA, boxB) ==
    [boxA |-> boxA, boxB |-> boxB, done |-> TRUE,
     centerA |-> Center(boxA), centerB |-> Center(boxB),
     near |-> Near(Center(boxA), Center(boxB)),
     nearBack |-> Near(Center(boxB), Center(boxA))]

----------------------------------------------------------------------------
(* The init configuration of the plugin *)

\* m.cfg before Init has stored a configuration
Nil == [nil |-> TRUE]

\* the knobs of DetectionConfig that drive the tracking
Knobs ==
    {"MinConfidence", "MemoryMinConfidence", "MemoryDecayFactor",
     "MemoryNearnessThreshold", "MemoryClassSwitchThreshold", "MemoryCollapseMultiple"}

\* mutant: the struct handed to json.Unmarshal is the zero DetectionConfig
InitialConfigZero ==
    [Model |-> "", NetConfig |-> "", Backend |-> "", Target |-> "",
     MinConfidence              |-> F(0, 1),
     MemoryMinConfidence        |-> F(0, 1),
     MemoryDecayFactor          |-> F(0, 1),
     MemoryNearnessThreshold    |-> F(0, 1),
     MemoryClassSwitchThreshold |-> F(0, 1),
     MemoryCollapseMultiple     |-> FALSE]

\* cfg := DetectionConfig{...}: the struct Init hands to json.Unmarshal
InitialConfig ==
    [Model |-> "", NetConfig |-> "", Backend |-> "", Target |-> "",
     MinConfidence              |-> F(3, 4),
     MemoryMinConfidence        |-> F(1, 2),
     MemoryDecayFactor          |-> F(49, 50),
     MemoryNearnessThreshold    |-> F(13, 20),
     MemoryClassSwitchThreshold |-> F(3, 20),
     MemoryCollapseMultiple     |-> TRUE]

\* A config string: empty, not JSON, a JSON object with a value of the wrong
\* type, or a JSON object; fields[k] is empty when the object has no key k
\* and holds the value of the key otherwise.
Document(kind, fields) == [kind |-> kind, fields |-> fields]

NoFields == [k \in DOMAIN InitialConfig |-> {}]

Documents ==
    {Document("empty", NoFields), Document("invalid", NoFields)}
    \cup
    { Document(kind,
        [Model |-> model, NetConfig |-> netConfig, Backend |-> {}, Target |-> {},
         MinConfidence |-> minConf, MemoryMinConfidence |-> memMin,
         MemoryDecayFactor |-> decay, MemoryNearnessThreshold |-> near,
         MemoryClassSwitchThreshold |-> switch, MemoryCollapseMultiple |-> collapse]) :
        kind \in {"mistyped", "object"},
        model \in {{}, {""}, {"model.pb"}},
        netConfig \in {{}, {""}, {"model.pbtxt"}},
        minConf \in {{}, {F(1, 2)}},
        memMin \in {{}, {F(1, 4)}},
        decay \in {{}, {F(1, 2)}, {F(-1, 1)}},
        near \in {{}, {F(3, 2)}},
        switch \in {{}, {F(1, 4)}},
        collapse \in {{}, {FALSE}} }

\* json.Unmarshal([]byte(config), &cfg): a key of the object overwrites its
\* field, every other field keeps the value it had
Unmarshal(fields, into) ==
    [k \in DOMAIN into |-> IF fields[k] = {} THEN into[k] ELSE CHOOSE v \in fields[k] : TRUE]

\* VideoPlugin.Init: the error it returns and m.cfg after it
PluginInit(doc, mcfgBefore) ==
    IF doc.kind = "empty"
    THEN [err |-> "you must specify an init configuration", mcfg |-> mcfgBefore]
    ELSE IF doc.kind \in {"invalid", "mistyped"}
    THEN [err |-> "json", mcfg |-> mcfgBefore]
    ELSE LET c == Unmarshal(doc.fields, InitialConfig)
         IN  IF c.Model = "" \/ c.NetConfig = ""
             THEN [err |-> "model and netConfig are mandatory init config parameters",
                   mcfg |-> mcfgBefore]
             ELSE [err |-> "nil", mcfg |-> c]

----------------------------------------------------------------------------
(* The session: events, errors and what NextBatch returns *)

\* mutant: the event is built without the known blobs
videoEvWithoutBlobs(bl) == [Blobs |-> <<>>]

\* videoEv := VideoEvent{..., Blobs: blobList.Blobs(), ...}
videoEv(bl) == [Blobs |-> bl]

\* mutant: the quit channel is made without a buffer
QuitCapacityUnbuffered == Len(<<>>)

\* capacity of the quit channel: make(QuitChan, 1)
QuitCapacity == 1

\* the configuration of the sessions of the model
SessionConfig ==
    [MinConfidence              |-> F(1, 2),
     MemoryMinConfidence        |-> F(1, 4),
     MemoryDecayFactor          |-> F(1, 2),
     MemoryNearnessThreshold    |-> F(1, 4),
     MemoryClassSwitchThreshold |-> F(1, 4),
     MemoryCollapseMultiple     |-> TRUE]

\* the outputs of the network for one frame of a session: nothing, a person
\* at full confidence, or a cat at 0.75
SessionResults ==
    { <<>>,
      <<Detection(1,  F(1, 1), F(0, 1), F(0, 1), F(1, 2), F(1, 1))>>,
      <<Detection(17, F(3, 4), F(1, 4), F(0, 1), F(1, 1), F(1, 1))>> }

\* before the first NextBatch call has returned
NoReturn ==
    [n |-> 0, err |-> "none", payload |-> videoEv(<<>>), via |-> "none", received |-> "none"]

\* mutant: errDeviceClosed is returned like any other error
NextBatchOnErrorUnmapped(err) ==
    [n |-> 0, err |-> err, payload |-> videoEv(<<>>), via |-> "error", received |-> err]

\* case err := <-m.errorc
NextBatchOnError(err) ==
    [n |-> 0, err |-> IF err = "errDeviceClosed" THEN "ErrEOF" ELSE err,
     payload |-> videoEv(<<>>), via |-> "error", received |-> err]

\* case payload := <-m.detectionc
NextBatchOnEvent(payload) ==
    [n |-> 1, err |-> "nil", payload |-> payload, via |-> "detection", received |-> "nil"]

\* case img := <-m.renderc, with the window closed or a key pressed
NextBatchOnWindowClosed ==
    [n |-> 0, err |-> "ErrEOF", payload |-> videoEv(<<>>), via |-> "render", received |-> "nil"]

\* case <-timeout
NextBatchOnTimeout ==
    [n |-> 0, err |-> "ErrTimeout", payload |-> videoEv(<<>>), via |-> "timeout",
     received |-> "nil"]

----------------------------------------------------------------------------
(* The store as a Go slice: a header (backing array, length) over arrays    *)
(* that other slice headers, such as the one carried by an event, share.    *)

\* var newBlobs []Blob: the nil slice
NilSlice == [arr |-> 0, len |-> 0]

\* the elements a slice header sees
SliceElems(arrays, s) ==
    IF s.arr = 0 THEN <<>> ELSE SubSeq(arrays[s.arr].elems, 1, s.len)

\* the capacity append gives the new array when the old one is full
GrowCap(cap, needed) ==
    IF cap = 0 THEN needed ELSE IF 2 * cap >= needed THEN 2 * cap ELSE needed

\* append(s, blob): in place when the backing array has room, else into a
\* new array that holds a copy of the elements
appendSlice(h, blob) ==
    LET s == h.slice
        a == IF s.arr = 0 THEN [elems |-> <<>>, cap |-> 0] ELSE h.arrays[s.arr]
    IN  IF s.len < a.cap
        THEN [arrays |-> [h.arrays EXCEPT ![s.arr].elems =
                             SubSeq(@, 1, s.len) \o <<blob>> \o SubSeq(@, s.len + 2, Len(@))],
              slice  |-> [arr |-> s.arr, len |-> s.len + 1]]
        ELSE [arrays |-> Append(h.arrays,
                                [elems |-> SubSeq(a.elems, 1, s.len) \o <<blob>>,
                                 cap   |-> GrowCap(a.cap, s.len + 1)]),
              slice  |-> [arr |-> Len(h.arrays) + 1, len |-> s.len + 1]]

RECURSIVE appendAll(_, _, _)
appendAll(h, bl, i) ==
    IF i > Len(bl) THEN h ELSE appendAll(appendSlice(h, bl[i]), bl, i + 1)

\* mutant: the survivors are filtered in place, newBlobs := b.blobs[:0]
refreshConfidenceSliceInPlace(h, blobConfidenceRefreshRatio, blobConfidenceRefreshThreshold) ==
    appendAll([arrays |-> h.arrays, slice |-> [arr |-> h.slice.arr, len |-> 0]],
              refreshConfidence(SliceElems(h.arrays, h.slice),
                                blobConfidenceRefreshRatio, blobConfidenceRefreshThreshold),
              1)

\* refreshConfidence on the slice: the survivors are appended to a nil
\* slice, which then replaces b.blobs
refreshConfidenceSlice(h, blobConfidenceRefreshRatio, blobConfidenceRefreshThreshold) ==
    appendAll([arrays |-> h.arrays, slice |-> NilSlice],
              refreshConfidence(SliceElems(h.arrays, h.slice),
                                blobConfidenceRefreshRatio, blobConfidenceRefreshThreshold),
              1)

\* the writes of Update's loop: b.blobs[index] in mergeAtIndex, or an append
RECURSIVE UpdateSliceLoop(_, _, _)
UpdateSliceLoop(h, stepsOfCall, k) ==
    IF k > Len(stepsOfCall) THEN h
    ELSE LET st == stepsOfCall[k]
             h2 == IF st.nearestIndex < 0
                   THEN appendSlice(h, st.blob)
                   ELSE [h EXCEPT !.arrays[h.slice.arr].elems[st.nearestIndex + 1] =
                                      st.after[st.nearestIndex + 1]]
         IN  UpdateSliceLoop(h2, stepsOfCall, k + 1)

\* Update on the slice, for the choices its loop made (stepsOfCall)
UpdateSlice(h, stepsOfCall, c) ==
    UpdateSliceLoop(refreshConfidenceSlice(h, c.MemoryDecayFactor, c.MemoryMinConfidence),
                    stepsOfCall, 1)

----------------------------------------------------------------------------
(* The ring buffer of recent confidences (ring-buffer variant of main.go)   *)

\* the values pushed: float32 confidences, here small integers
RingValues == 0..MaxRingValue

\* NewRing: make([]float32, size, size), cursor 0
NewRing(size) == [vals |-> [i \in 1..size |-> 0], cursor |-> 0]

\* mutant: the cursor is not wrapped
PushWithoutWrap(r, val) ==
    [vals |-> [r.vals EXCEPT ![r.cursor + 1] = val], cursor |-> r.cursor + 1]

\* Ring.Push
Push(r, val) ==
    [vals   |-> [r.vals EXCEPT ![r.cursor + 1] = val],
     cursor |-> (r.cursor + 1) % Len(r.vals)]

----------------------------------------------------------------------------
(* The field extraction of the plugin                                      *)

\* the code points of the strings of the model
Runes(s) ==
    CASE s = ""       -> <<>>
      [] s = "Human"  -> <<72, 117, 109, 97, 110>>
      [] s = "human"  -> <<104, 117, 109, 97, 110>>
      [] s = "HUMAN"  -> <<72, 85, 77, 65, 78>>
      [] s = "Humans" -> <<72, 117, 109, 97, 110, 115>>
      [] s = "Animal" -> <<65, 110, 105, 109, 97, 108>>
      [] s = "aNIMAL" -> <<97, 78, 73, 77, 65, 76>>
      [] s = "Cat"    -> <<67, 97, 116>>

\* the simple case folding of an ASCII code point
FoldRune(r) == IF r \in 65..90 THEN r + 32 ELSE r

\* mutant: the names are compared as they are
EqualFoldExact(s, t) == s = t

\* strings.EqualFold
EqualFold(s, t) ==
    /\ Len(Runes(s)) = Len(Runes(t))
    /\ \A i \in 1..Len(Runes(s)) : FoldRune(Runes(s)[i]) = FoldRune(Runes(t)[i])

\* CategoryID.String: Categories[c], the empty string when c is not a key
String(c) == IF c \in DOMAIN Categories THEN Categories[c] ELSE ""

\* VideoPlugin.Fields: the fields in the order of their ids
Fields ==
    << [Type |-> "uint64", Name |-> "homesecurity.blob"],
       [Type |-> "string", Name |-> "homesecurity.source"],
       [Type |-> "string", Name |-> "homesecurity.snapshot"] >>

\* the payload of an event as Extract decodes it
VideoEvent(videoSource, bl, snapshotPath) ==
    [VideoSource |-> videoSource, Blobs |-> bl, SnapshotPath |-> snapshotPath]

\* what an Extract call left behind: the error returned, and the value set
\* on the request if one was set
Extracted(err, set, value) == [err |-> err, set |-> set, value |-> value]

\* the number of blobs of the payload whose category name matches arg
RECURSIVE countMatching(_, _, _)
countMatching(bl, arg, i) ==
    IF i > Len(bl) THEN 0
    ELSE (IF EqualFold(String(bl[i].Category), arg) THEN 1 ELSE 0)
         + countMatching(bl, arg, i + 1)

\* VideoPlugin.Extract on an event whose payload decodes or not
Extract(decodes, payload, fieldID, arg) ==
    IF ~decodes THEN Extracted("decode error", FALSE, "")
    ELSE CASE fieldID = 0 ->
                Extracted("nil", TRUE,
                          IF Len(Runes(arg)) > 0 THEN countMatching(payload.Blobs, arg, 1)
                          ELSE Len(payload.Blobs))
           [] fieldID = 1 -> Extracted("nil", TRUE, payload.VideoSource)
           [] fieldID = 2 -> Extracted("nil", TRUE, payload.SnapshotPath)
           [] OTHER -> Extracted("unsupported field", FALSE, "")

\* the arguments of the requests of the model
ExtractArgs == {"", "Human", "human", "HUMAN", "Humans", "Animal", "aNIMAL", "Cat"}

\* the lists of blobs of the payloads of the model
PayloadBlobs ==
    ListsOf({Blob(c, F(1, 1), Pos(0, 0, 2, 2)) : c \in {Human, Animal, Vehicle}},
            MaxPayloadBlobs)

----------------------------------------------------------------------------
(* State *)

VARIABLES
    blobs,      \* BlobList.blobs of the session's store
    cfg,        \* the DetectionConfig handed to every Update call
    nobs,       \* number of observations handed to the store so far
    oldBlobs,   \* the store when the last Update call started
    input,      \* the observations of the last Update call
    refreshed,  \* the store right after refreshConfidence in the last call
    steps,      \* one record per observation of the last call
    changed,    \* the value the last Update call returned
    idle,       \* number of calls without observations since the last one with
    idleStart,  \* the store when that run of calls without observations began
    ids,        \* for each known blob, the ordinal of the observation it was created from
    results,    \* the detector's output for the last frame
    classId,    \* the class id last handed to ParseClassID
    category,   \* the category ParseClassID returned for it
    measured,   \* the last two boxes measured, their centers and their nearness
    config,     \* the config string last handed to VideoPlugin.Init
    mcfg,       \* m.cfg of the plugin
    initErr,    \* the error VideoPlugin.Init returned
    showWindow, \* OpenConfig.ShowWindow of the instance
    gpc,        \* where the detection goroutine stands
    offer,      \* the event and the error the goroutine last built to send
    nframes,    \* number of frames the goroutine has handed to Update
    closedChans,\* which of the goroutine's three channels are closed
    sent,       \* the events NextBatch has received from the goroutine, in order
    quitc,      \* the buffer of the quit channel
    quitClosed, \* whether the quit channel is closed
    closeCalled,\* whether Close has been called on the instance
    nb,         \* where the framework's thread stands in NextBatch
    timer,      \* whether the timeout channel of the NextBatch call is ready
    ret,        \* what the last NextBatch call returned, and on which case
    heap,       \* the backing arrays allocated for the store, and b.blobs' header
    sentSlices, \* the slice headers of the events received, with what they held
    ring,       \* a Ring of the ring-buffer variant
    pushed,     \* the values pushed into it, in order
    extraction, \* the last Extract request, and what the call left behind
    hpc,        \* where the goroutine of the standalone main stands
    sigc,       \* the buffer of the standalone program's signal channel
    wg,         \* the counter of the standalone program's WaitGroup
    mainpc,     \* where the standalone main stands
    signalled   \* whether a termination signal was delivered to the program

storeVars == <<blobs, cfg, nobs, oldBlobs, input, refreshed, steps, changed>>

historyVars == <<idle, idleStart, ids>>

detectorVars == <<results, classId, category>>

ringVars == <<ring, pushed>>

standaloneVars == <<hpc, sigc, wg, mainpc, signalled>>

variantVars == <<ringVars, extraction, standaloneVars>>

asideVars == <<measured, config, mcfg, initErr, variantVars>>

goroutineVars == <<gpc, offer, nframes, closedChans, sent>>

instanceVars == <<showWindow, quitc, quitClosed, closeCalled, nb, timer, ret>>

heapVars == <<heap, sentSlices>>

sessionVars == <<goroutineVars, instanceVars, heapVars>>

vars == <<storeVars, historyVars, detectorVars, asideVars, sessionVars>>

\* an instance right after Open: the goroutine launched, nothing sent,
\* no NextBatch call made
InitInstance ==
    /\ gpc = "open"
    /\ offer = [event |-> videoEv(<<>>), err |-> "nil"]
    /\ nframes = 0
    /\ closedChans = {}
    /\ sent = <<>>
    /\ quitc = <<>>
    /\ quitClosed = FALSE
    /\ closeCalled = FALSE
    /\ nb = "idle"
    /\ timer = FALSE
    /\ ret = NoReturn
    /\ heap = [arrays |-> <<>>, slice |-> NilSlice]
    /\ sentSlices = <<>>

\* a Ring of size 1 nothing was pushed into
InitRing == ring = NewRing(1) /\ pushed = <<>>

\* no Extract call yet
NoExtraction ==
    [decodes |-> TRUE, payload |-> VideoEvent("", <<>>, ""), fieldID |-> 0, arg |-> "",
     done |-> FALSE, out |-> Extracted("nil", FALSE, "")]

\* the standalone program before main has launched anything
InitStandalone ==
    /\ hpc = "select"
    /\ sigc = <<>>
    /\ wg = 0
    /\ mainpc = "wait"
    /\ signalled = FALSE

InitVariants == InitRing /\ extraction = NoExtraction /\ InitStandalone

\* nothing measured yet, the plugin registered and not initialised
InitAside ==
    /\ measured = Unmeasured(Pos(0, 0, 0, 0), Pos(0, 0, 0, 0))
    /\ config = Document("empty", NoFields)
    /\ mcfg = Nil
    /\ initErr = "nil"
    /\ InitVariants

\* var blobList BlobList: the store starts empty
Init ==
    /\ blobs = <<>>
    /\ cfg \in Configs
    /\ nobs = 0
    /\ oldBlobs = <<>>
    /\ input = <<>>
    /\ refreshed = <<>>
    /\ steps = <<>>
    /\ changed = FALSE
    /\ idle = 0
    /\ idleStart = <<>>
    /\ ids = <<>>
    /\ results = <<>>
    /\ classId = 0
    /\ category = Unknown
    /\ InitAside
    /\ showWindow = FALSE
    /\ InitInstance

\* blobList.Update(blobs, cfg) on the session's store
CallUpdate(blobsIn) ==
    /\ nobs + Len(blobsIn) <= MaxTotalObs
    /\ LET r == Update(blobs, blobsIn, cfg)
       IN  /\ blobs' = r.blobs
           /\ changed' = r.changed
           /\ steps' = r.steps
           /\ refreshed' = r.refreshed
    /\ oldBlobs' = blobs
    /\ input' = blobsIn
    /\ nobs' = nobs + Len(blobsIn)
    /\ UNCHANGED <<cfg, classId, category, asideVars>>

\* one frame of the detection loop: blobList.Update(blobs, cfg)
UpdateCall(blobsIn) ==
    /\ CallUpdate(blobsIn)
    /\ UNCHANGED <<historyVars, results, sessionVars>>

Next == \E blobsIn \in Inputs : UpdateCall(blobsIn)

Spec == Init /\ [][Next]_vars

----------------------------------------------------------------------------
(* The detection loop from the detector's output on.                       *)

\* one frame: blobs := performBlob(&img, prob, cfg.MinConfidence), then
\* blobList.Update(blobs, cfg)
FrameCall(prob) ==
    /\ nobs + Len(prob) <= MaxLoopObs
    /\ \E blobsIn \in performBlob(Frame, prob, cfg.MinConfidence) : CallUpdate(blobsIn)
    /\ results' = prob
    /\ UNCHANGED <<historyVars, sessionVars>>

NextLoop == \E prob \in Results : FrameCall(prob)

SpecLoop == Init /\ [][NextLoop]_vars

----------------------------------------------------------------------------
(* The classifier on its own.                                              *)

\* c := ParseClassID(classId)
Classify(id) ==
    /\ classId' = id
    /\ category' \in ParseClassID(id)
    /\ UNCHANGED <<storeVars, historyVars, results, asideVars, sessionVars>>

NextClassify == \E id \in ClassIds : Classify(id)

SpecClassify == Init /\ [][NextClassify]_vars

----------------------------------------------------------------------------
(* The loop under the default configuration, fed on every frame.           *)

InitDefaults ==
    /\ blobs = <<>>
    /\ cfg = DefaultConfig
    /\ nobs = 0
    /\ oldBlobs = <<>>
    /\ input = <<>>
    /\ refreshed = <<>>
    /\ steps = <<>>
    /\ changed = FALSE
    /\ idle = 0
    /\ idleStart = <<>>
    /\ ids = <<>>
    /\ results = <<>>
    /\ classId = 0
    /\ category = Unknown
    /\ InitAside
    /\ showWindow = FALSE
    /\ InitInstance

DefaultCall(blobsIn) ==
    /\ nobs + Len(blobsIn) <= MaxDefaultObs
    /\ UpdateCall(blobsIn)

NextDefaults == \E blobsIn \in DefaultInputs : DefaultCall(blobsIn)

SpecDefaults == InitDefaults /\ [][NextDefaults]_vars

----------------------------------------------------------------------------
(* Center and Near on their own.                                           *)

InitGeometry ==
    /\ blobs = <<>>
    /\ cfg = DefaultConfig
    /\ nobs = 0
    /\ oldBlobs = <<>>
    /\ input = <<>>
    /\ refreshed = <<>>
    /\ steps = <<>>
    /\ changed = FALSE
    /\ idle = 0
    /\ idleStart = <<>>
    /\ ids = <<>>
    /\ results = <<>>
    /\ classId = 0
    /\ category = Unknown
    /\ \E boxA, boxB \in Boxes : measured = Unmeasured(boxA, boxB)
    /\ config = Document("empty", NoFields)
    /\ mcfg = Nil
    /\ initErr = "nil"
    /\ InitVariants
    /\ showWindow = FALSE
    /\ InitInstance

\* nearness := blob.Position.Center().Near(other.Position.Center())
MeasureBoxes ==
    /\ ~measured.done
    /\ measured' = Measure(measured.boxA, measured.boxB)
    /\ UNCHANGED <<storeVars, historyVars, detectorVars, config, mcfg, initErr, variantVars,
                   sessionVars>>

NextGeometry == MeasureBoxes

SpecGeometry == InitGeometry /\ [][NextGeometry]_vars

----------------------------------------------------------------------------
(* The plugin's Init, called once by the framework.                        *)

InitCall(doc) ==
    /\ mcfg = Nil /\ initErr = "nil"
    /\ LET r == PluginInit(doc, mcfg)
       IN  /\ mcfg' = r.mcfg
           /\ initErr' = r.err
    /\ config' = doc
    /\ UNCHANGED <<storeVars, historyVars, detectorVars, measured, variantVars, sessionVars>>

NextInit == \E doc \in Documents : InitCall(doc)

SpecInit == InitDefaults /\ [][NextInit]_vars

----------------------------------------------------------------------------
(* The ring buffer and the field extraction on their own.                  *)

\* no store, no measure, no plugin configuration and no session in use
InitRest ==
    /\ blobs = <<>>
    /\ cfg = DefaultConfig
    /\ nobs = 0
    /\ oldBlobs = <<>>
    /\ input = <<>>
    /\ refreshed = <<>>
    /\ steps = <<>>
    /\ changed = FALSE
    /\ idle = 0
    /\ idleStart = <<>>
    /\ ids = <<>>
    /\ results = <<>>
    /\ classId = 0
    /\ category = Unknown
    /\ measured = Unmeasured(Pos(0, 0, 0, 0), Pos(0, 0, 0, 0))
    /\ config = Document("empty", NoFields)
    /\ mcfg = Nil
    /\ initErr = "nil"
    /\ showWindow = FALSE
    /\ InitInstance

\* NewRing(size) for a positive size
InitRings ==
    /\ InitRest
    /\ \E size \in 1..MaxRingSize : ring = NewRing(size)
    /\ pushed = <<>>
    /\ extraction = NoExtraction
    /\ InitStandalone

\* r.Push(val)
PushCall(val) ==
    /\ Len(pushed) < MaxPushes
    /\ ring' = Push(ring, val)
    /\ pushed' = Append(pushed, val)
    /\ UNCHANGED <<storeVars, historyVars, detectorVars, measured, config, mcfg, initErr,
                   extraction, standaloneVars, sessionVars>>

NextRing == \E val \in RingValues : PushCall(val)

SpecRing == InitRings /\ [][NextRing]_vars

\* an event and a request for one of its fields, handed to Extract
InitExtract ==
    /\ InitRest
    /\ InitRing
    /\ InitStandalone
    /\ \E decodes \in BOOLEAN, bl \in PayloadBlobs, fieldID \in 0..MaxFieldId,
          arg \in ExtractArgs :
          extraction = [decodes |-> decodes,
                        payload |-> VideoEvent("0", bl, "./snapshots/1.jpg"),
                        fieldID |-> fieldID, arg |-> arg,
                        done |-> FALSE, out |-> Extracted("nil", FALSE, "")]

\* m.Extract(req, evt)
ExtractCall ==
    /\ ~extraction.done
    /\ extraction' = [extraction EXCEPT
           !.done = TRUE,
           !.out = Extract(extraction.decodes, extraction.payload,
                           extraction.fieldID, extraction.arg)]
    /\ UNCHANGED <<storeVars, historyVars, detectorVars, measured, config, mcfg, initErr,
                   ringVars, standaloneVars, sessionVars>>

NextExtract == ExtractCall

SpecExtract == InitExtract /\ [][NextExtract]_vars

----------------------------------------------------------------------------
(* One session: the goroutine of LaunchVideoDetection, and the framework's *)
(* thread calling NextBatch and Close on the instance.  The goroutine's    *)
(* channels are unbuffered: a send and its receive are one step.           *)

InitSession ==
    /\ blobs = <<>>
    /\ cfg = SessionConfig
    /\ nobs = 0
    /\ oldBlobs = <<>>
    /\ input = <<>>
    /\ refreshed = <<>>
    /\ steps = <<>>
    /\ changed = FALSE
    /\ idle = 0
    /\ idleStart = <<>>
    /\ ids = <<>>
    /\ results = <<>>
    /\ classId = 0
    /\ category = Unknown
    /\ InitAside
    /\ showWindow \in BOOLEAN
    /\ InitInstance

\* a receive from quitc would not block: a value is buffered or it is closed
QuitReady == quitc # <<>> \/ quitClosed

\* case <-quitc: return
TakeQuit ==
    /\ QuitReady
    /\ quitc' = IF quitc # <<>> THEN Tail(quitc) ELSE quitc
    /\ gpc' = "exiting"

\* where the loop goes on after the event: the render send, or the next frame
AfterEvent == IF showWindow THEN "sendRender" ELSE "top"

\* gocv.OpenVideoCapture / gocv.VideoCaptureFile
GOpenCapture ==
    /\ gpc = "open"
    /\ \E ok \in BOOLEAN :
          IF ok THEN gpc' = "model" /\ offer' = offer
          ELSE /\ gpc' = "sendOpenErr"
               /\ offer' = [offer EXCEPT !.err = "error opening video capture device"]
    /\ UNCHANGED <<storeVars, historyVars, detectorVars, asideVars, heapVars, instanceVars,
                   nframes, closedChans, sent>>

\* gocv.ReadNet and net.Empty()
GReadNet ==
    /\ gpc = "model"
    /\ \E ok \in BOOLEAN :
          IF ok THEN gpc' = "top" /\ offer' = offer
          ELSE /\ gpc' = "sendModelErr"
               /\ offer' = [offer EXCEPT !.err = "error reading network model"]
    /\ UNCHANGED <<storeVars, historyVars, detectorVars, asideVars, heapVars, instanceVars,
                   nframes, closedChans, sent>>

\* select { case <-quitc: return; default: }
GTop ==
    /\ gpc = "top"
    /\ IF QuitReady THEN TakeQuit ELSE gpc' = "read" /\ quitc' = quitc
    /\ UNCHANGED <<storeVars, historyVars, detectorVars, asideVars, heapVars, offer, nframes,
                   closedChans, sent, showWindow, quitClosed, closeCalled, nb, timer, ret>>

\* capture.Read(&img) fails
GReadFails ==
    /\ gpc = "read"
    /\ gpc' = "sendClosed"
    /\ offer' = [offer EXCEPT !.err = "errDeviceClosed"]
    /\ UNCHANGED <<storeVars, historyVars, detectorVars, asideVars, heapVars, instanceVars,
                   nframes, closedChans, sent>>

\* capture.Read(&img) delivers an empty image: continue
GReadEmpty ==
    /\ gpc = "read"
    /\ nframes < MaxFrames
    /\ gpc' = "top"
    /\ UNCHANGED <<storeVars, historyVars, detectorVars, asideVars, heapVars, instanceVars,
                   offer, nframes, closedChans, sent>>

\* capture.Read(&img) delivers a frame: the network's output goes through
\* performBlob and Update, and an event is built if Update returned true
GFrame(prob) ==
    /\ gpc = "read"
    /\ nframes < MaxFrames
    /\ \E blobsIn \in performBlob(Frame, prob, cfg.MinConfidence) : CallUpdate(blobsIn)
    /\ results' = prob
    /\ nframes' = nframes + 1
    /\ heap' = UpdateSlice(heap, steps', cfg)
    /\ IF changed'
       THEN gpc' = "sendEvent" /\ offer' = [offer EXCEPT !.event = videoEv(blobs')]
       ELSE gpc' = AfterEvent /\ offer' = offer
    /\ UNCHANGED <<historyVars, instanceVars, closedChans, sent, sentSlices>>

\* case <-quitc: return, in the select of a send
GQuitAtSend ==
    /\ gpc \in {"sendClosed", "sendEvent", "sendRender"}
    /\ TakeQuit
    /\ UNCHANGED <<storeVars, historyVars, detectorVars, asideVars, heapVars, offer, nframes,
                   closedChans, sent, showWindow, quitClosed, closeCalled, nb, timer, ret>>

\* the deferred close(errorChan), close(renderChan), close(detectionChan)
GCloseChannel ==
    /\ gpc = "exiting"
    /\ LET next == IF "error" \notin closedChans THEN "error"
                   ELSE IF "render" \notin closedChans THEN "render"
                   ELSE "detection"
       IN  /\ closedChans' = closedChans \cup {next}
           /\ gpc' = IF next = "detection" THEN "done" ELSE "exiting"
    /\ UNCHANGED <<storeVars, historyVars, detectorVars, asideVars, heapVars, instanceVars,
                   offer, nframes, sent>>

\* the steps the goroutine takes on its own
GoroutineStep ==
    \/ GOpenCapture \/ GReadNet \/ GTop \/ GReadFails \/ GReadEmpty
    \/ \E prob \in SessionResults : GFrame(prob)
    \/ GQuitAtSend \/ GCloseChannel

\* the framework calls NextBatch: timeout := time.After(...)
NBCall ==
    /\ nb = "idle" /\ ~closeCalled
    /\ nb' = "select"
    /\ timer' = FALSE
    /\ UNCHANGED <<storeVars, historyVars, detectorVars, asideVars, heapVars, goroutineVars,
                   showWindow, quitc, quitClosed, closeCalled, ret>>

\* the 1000 ms of the call elapse
TimerFires ==
    /\ nb = "select" /\ ~timer
    /\ timer' = TRUE
    /\ UNCHANGED <<storeVars, historyVars, detectorVars, asideVars, heapVars, goroutineVars,
                   showWindow, quitc, quitClosed, closeCalled, nb, ret>>

\* case <-timeout
NBTimeout ==
    /\ nb = "select" /\ timer
    /\ ret' = NextBatchOnTimeout
    /\ nb' = "idle"
    /\ UNCHANGED <<storeVars, historyVars, detectorVars, asideVars, heapVars, goroutineVars,
                   showWindow, quitc, quitClosed, closeCalled, timer>>

\* case payload := <-m.detectionc: the goroutine's send, or the zero value
\* of a closed channel
NBDetection ==
    /\ nb = "select"
    /\ \/ /\ gpc = "sendEvent"
          /\ ret' = NextBatchOnEvent(offer.event)
          /\ sent' = Append(sent, offer.event)
          /\ sentSlices' = Append(sentSlices, [slice |-> heap.slice,
                                               held  |-> offer.event.Blobs])
          /\ gpc' = AfterEvent
       \/ /\ "detection" \in closedChans
          /\ ret' = NextBatchOnEvent(videoEv(<<>>))
          /\ UNCHANGED <<sent, sentSlices, gpc>>
    /\ nb' = "idle"
    /\ UNCHANGED <<storeVars, historyVars, detectorVars, asideVars, heap, offer, nframes,
                   closedChans, showWindow, quitc, quitClosed, closeCalled, timer>>

\* case err := <-m.errorc: the goroutine's send, or nil from a closed channel
NBError ==
    /\ nb = "select"
    /\ \/ /\ gpc \in {"sendOpenErr", "sendModelErr", "sendClosed"}
          /\ ret' = NextBatchOnError(offer.err)
          /\ gpc' = "exiting"
       \/ /\ "error" \in closedChans
          /\ ret' = NextBatchOnError("nil")
          /\ gpc' = gpc
    /\ nb' = "idle"
    /\ UNCHANGED <<storeVars, historyVars, detectorVars, asideVars, heapVars, offer, nframes,
                   closedChans, sent, showWindow, quitc, quitClosed, closeCalled, timer>>

\* case img := <-m.renderc: the call goes on unless the window is shown and
\* a key was pressed or the window is no longer visible
NBRender ==
    /\ nb = "select"
    /\ \/ gpc = "sendRender" /\ gpc' = "top"
       \/ "render" \in closedChans /\ gpc' = gpc
    /\ \E closing \in BOOLEAN :
          IF showWindow /\ closing
          THEN ret' = NextBatchOnWindowClosed /\ nb' = "idle"
          ELSE ret' = ret /\ nb' = nb
    /\ UNCHANGED <<storeVars, historyVars, detectorVars, asideVars, heapVars, offer, nframes,
                   closedChans, sent, showWindow, quitc, quitClosed, closeCalled, timer>>

\* VideoInstance.Close: m.quitc <- true; close(m.quitc)
Close ==
    /\ nb = "idle" /\ ~closeCalled
    /\ Len(quitc) < QuitCapacity
    /\ quitc' = Append(quitc, TRUE)
    /\ quitClosed' = TRUE
    /\ closeCalled' = TRUE
    /\ UNCHANGED <<storeVars, historyVars, detectorVars, asideVars, heapVars, goroutineVars,
                   showWindow, nb, timer, ret>>

NextSession ==
    \/ GoroutineStep
    \/ NBCall \/ TimerFires \/ NBTimeout \/ NBDetection \/ NBError \/ NBRender
    \/ Close

SpecSession == InitSession /\ [][NextSession]_vars

\* the Go scheduler runs a goroutine that can take a step
SpecSessionFair == SpecSession /\ WF_vars(GoroutineStep)

----------------------------------------------------------------------------
(* The standalone program that waits on a WaitGroup: the detection         *)
(* goroutine, the goroutine of main that listens to the signals and to the *)
(* two channels, and main itself.  All its channels but sigc are           *)
(* unbuffered: a send and its receive are one step.                        *)

\* main has made the channels, launched both goroutines and reached wg.Wait
InitStandaloneRun ==
    /\ InitRest
    /\ InitRing
    /\ extraction = NoExtraction
    /\ hpc = "select"
    /\ sigc = <<>>
    /\ wg = 1
    /\ mainpc = "wait"
    /\ signalled = FALSE

\* what the standalone program leaves alone
restVars ==
    <<storeVars, historyVars, detectorVars, measured, config, mcfg, initErr, ringVars,
      extraction, offer, sent, instanceVars, heapVars>>

\* the sends of the goroutine on errorChan, none of them in a select
ErrorSends == {"sendOpenErr", "sendModelErr", "sendClosed", "sendUserQuit"}

\* gocv.OpenVideoCapture / gocv.VideoCaptureFile
SOpenCapture ==
    /\ gpc = "open"
    /\ \E ok \in BOOLEAN : gpc' = IF ok THEN "model" ELSE "sendOpenErr"
    /\ UNCHANGED <<restVars, nframes, closedChans, standaloneVars>>

\* gocv.ReadNet and net.Empty()
SReadNet ==
    /\ gpc = "model"
    /\ \E ok \in BOOLEAN : gpc' = IF ok THEN "top" ELSE "sendModelErr"
    /\ UNCHANGED <<restVars, nframes, closedChans, standaloneVars>>

\* select { case <-quitc: return; default: }: the receive is ready when the
\* goroutine of main stands at its send on quitc
STop ==
    /\ gpc = "top"
    /\ IF hpc = "sendQuit"
       THEN gpc' = "exiting" /\ hpc' = "returned"
       ELSE gpc' = "read" /\ hpc' = hpc
    /\ UNCHANGED <<restVars, nframes, closedChans, sigc, wg, mainpc, signalled>>

\* capture.Read(&img) fails
SReadFails ==
    /\ gpc = "read"
    /\ gpc' = "sendClosed"
    /\ UNCHANGED <<restVars, nframes, closedChans, standaloneVars>>

\* capture.Read(&img) delivers an empty image: continue
SReadEmpty ==
    /\ gpc = "read"
    /\ nframes < MaxStandaloneFrames
    /\ gpc' = "top"
    /\ UNCHANGED <<restVars, nframes, closedChans, standaloneVars>>

\* capture.Read(&img) delivers a frame; blobList.Update returns true or false
SFrame ==
    /\ gpc = "read"
    /\ nframes < MaxStandaloneFrames
    /\ nframes' = nframes + 1
    /\ \E updated \in BOOLEAN : gpc' = IF updated THEN "sendEvent" ELSE "window"
    /\ UNCHANGED <<restVars, closedChans, standaloneVars>>

\* window.WaitKey(1) >= 0 || the window is no longer visible
SWindow ==
    /\ gpc = "window"
    /\ \E closing \in BOOLEAN : gpc' = IF closing THEN "sendUserQuit" ELSE "top"
    /\ UNCHANGED <<restVars, nframes, closedChans, standaloneVars>>

\* the deferred close(errorChan), close(detectionChan), wg.Done()
SExit ==
    /\ gpc = "exiting"
    /\ IF "error" \notin closedChans
       THEN closedChans' = closedChans \cup {"error"} /\ gpc' = gpc /\ wg' = wg
       ELSE IF "detection" \notin closedChans
       THEN closedChans' = closedChans \cup {"detection"} /\ gpc' = gpc /\ wg' = wg
       ELSE closedChans' = closedChans /\ gpc' = "done" /\ wg' = wg - 1
    /\ UNCHANGED <<restVars, nframes, hpc, sigc, mainpc, signalled>>

\* the steps the detection goroutine takes on its own
DetectionStep ==
    \/ SOpenCapture \/ SReadNet \/ STop \/ SReadFails \/ SReadEmpty \/ SFrame
    \/ SWindow \/ SExit

\* case <-sigc: the goroutine of main goes on to quitc <- true
HSignal ==
    /\ hpc = "select"
    /\ sigc # <<>>
    /\ sigc' = Tail(sigc)
    /\ hpc' = "sendQuit"
    /\ UNCHANGED <<restVars, goroutineVars, wg, mainpc, signalled>>

\* case e := <-errorc: a send of the detection goroutine, or the zero value
\* of the closed channel; return
HError ==
    /\ hpc = "select"
    /\ \/ gpc \in ErrorSends /\ gpc' = "exiting"
       \/ "error" \in closedChans /\ gpc' = gpc
    /\ hpc' = "returned"
    /\ UNCHANGED <<restVars, nframes, closedChans, sigc, wg, mainpc, signalled>>

\* case <-detectionc: the send of the detection goroutine is received and
\* the loop goes on
HDetection ==
    /\ hpc = "select"
    /\ gpc = "sendEvent"
    /\ gpc' = "window"
    /\ UNCHANGED <<restVars, nframes, closedChans, standaloneVars>>

\* the steps of the goroutine of main
HandlerStep == HSignal \/ HError \/ HDetection

\* wg.Wait() returns once the counter is zero
MWait ==
    /\ mainpc = "wait"
    /\ wg = 0
    /\ mainpc' = "closeQuit"
    /\ UNCHANGED <<restVars, goroutineVars, hpc, sigc, wg, signalled>>

\* close(quitc), and main returns
MCloseQuit ==
    /\ mainpc = "closeQuit"
    /\ mainpc' = "returned"
    /\ UNCHANGED <<restVars, goroutineVars, hpc, sigc, wg, signalled>>

MainStep == MWait \/ MCloseQuit

\* SIGINT, SIGTERM or SIGQUIT is delivered: signal.Notify puts it into sigc
\* unless the buffer is full
Signal ==
    /\ mainpc # "returned"
    /\ ~signalled \/ sigc = <<>>
    /\ signalled' = TRUE
    /\ sigc' = IF sigc = <<>> THEN <<"signal">> ELSE sigc
    /\ UNCHANGED <<restVars, goroutineVars, hpc, wg, mainpc>>

NextStandalone == DetectionStep \/ HandlerStep \/ MainStep \/ Signal

SpecStandalone == InitStandaloneRun /\ [][NextStandalone]_vars

\* the Go scheduler runs every goroutine that can take a step
SpecStandaloneFair ==
    /\ SpecStandalone
    /\ WF_vars(DetectionStep)
    /\ WF_vars(HandlerStep)
    /\ WF_vars(MainStep)

----------------------------------------------------------------------------
(* The same loop with the history of the entities recorded: how long the   *)
(* store has gone without observations, and which observation each known   *)
(* blob was created from.                                                  *)

\* the ordinals, since the session began, of the observations of the call
\* that started a new entity
CreatedOrdinals(stepsOfCall, first) ==
    SelectSeq([k \in 1..Len(stepsOfCall) |-> first + k],
              LAMBDA x : stepsOfCall[x - first].nearestIndex < 0)

\* the ordinals of the known blobs whose decayed confidence exceeds the floor
SurvivorOrdinals(bl, ordinals, c) ==
    LET kept == SelectSeq([i \in 1..Len(bl) |-> i], LAMBDA i :
                    FGt(FMul(bl[i].Confidence, c.MemoryDecayFactor), c.MemoryMinConfidence))
    IN  [j \in 1..Len(kept) |-> ordinals[kept[j]]]

TrackedCall(blobsIn) ==
    /\ blobsIn = <<>> => idle < MaxIdle
    /\ CallUpdate(blobsIn)
    /\ idle' = IF blobsIn = <<>> THEN idle + 1 ELSE 0
    /\ idleStart' = IF blobsIn = <<>> THEN idleStart ELSE blobs'
    /\ ids' = SurvivorOrdinals(blobs, ids, cfg) \o CreatedOrdinals(steps', nobs)
    /\ UNCHANGED <<results, sessionVars>>

NextTracked == \E blobsIn \in Inputs : TrackedCall(blobsIn)

SpecTracked == Init /\ [][NextTracked]_vars

\* the loop once the scene goes quiet: few observations, then none
ForgetCall(blobsIn) ==
    /\ nobs + Len(blobsIn) <= MaxForgetObs
    /\ TrackedCall(blobsIn)

NextForget == \E blobsIn \in Inputs : ForgetCall(blobsIn)

\* the frame loop keeps calling Update while the device delivers frames
SpecForget == Init /\ [][NextForget]_vars /\ WF_vars(ForgetCall(<<>>))

----------------------------------------------------------------------------
(* Vocabulary of the properties *)

\* the nearness score between an observation's box center and a known
\* blob's box center
Nearness(blob, known) == Near(Center(blob.Position), Center(known.Position))

\* the observation matches the known blob: their score exceeds the threshold
Matches(blob, known) == FGt(Nearness(blob, known), cfg.MemoryNearnessThreshold)

\* the observation's confidence reaches the known blob's plus the margin
MeetsMargin(blob, known) ==
    FGe(blob.Confidence, FAdd(known.Confidence, cfg.MemoryClassSwitchThreshold))

AboveFloor(e) == FGt(e.Confidence, cfg.MemoryMinConfidence)

Average(old, observed) == GoDiv(old + observed, 2)

StepIds == 1..Len(steps)

\* the step merged its observation into a known blob
IsMerge(k) == steps[k].nearestIndex >= 0

\* the merge target of step k, before and after the merge
Target(k) == steps[k].before[steps[k].nearestIndex + 1]

Merged(k) == steps[k].after[steps[k].nearestIndex + 1]

\* the store indexes step k could choose among
Eligible(k) ==
    {i \in 0..(Len(steps[k].before) - 1) :
        i \notin steps[k].merged /\ Matches(steps[k].blob, steps[k].before[i + 1])}

----------------------------------------------------------------------------
(* C1 *)

\* C1 as stated: after every Update call, for any list of observations,
\* every entity in the store has Confidence strictly greater than
\* cfg.MemoryMinConfidence.
C1_AllAboveFloor == \A i \in 1..Len(blobs) : AboveFloor(blobs[i])

\* C1 amended: after every Update call whose observations all have a
\* Confidence strictly greater than cfg.MemoryMinConfidence, every entity in
\* the store has Confidence strictly greater than cfg.MemoryMinConfidence,
\* whatever the prior store.
C1_AboveFloorForAdmittedObservations ==
    (\A k \in 1..Len(input) : AboveFloor(input[k]))
        => \A i \in 1..Len(blobs) : AboveFloor(blobs[i])

\* a call that evicted a blob, was handed an observation above the floor,
\* and started from a store holding a blob at or below the floor
C1_Witness ==
    /\ Len(input) > 0
    /\ \A k \in 1..Len(input) : AboveFloor(input[k])
    /\ \E i \in 1..Len(oldBlobs) : ~AboveFloor(oldBlobs[i])
    /\ Len(refreshed) < Len(oldBlobs)
    /\ Len(blobs) > 0

----------------------------------------------------------------------------
(* C2 *)

\* C2: an observation is merged into an existing entity only if the
\* nearness score between its box center and that entity's box center is
\* strictly greater than cfg.MemoryNearnessThreshold; when no entity has such
\* a score against the observation, it is appended as a new entity and
\* Update returns true.
C2_MergeOnlyIfNear ==
    \A k \in StepIds :
        /\ IsMerge(k) => Matches(steps[k].blob, Target(k))
        /\ (\A i \in 1..Len(steps[k].before) : ~Matches(steps[k].blob, steps[k].before[i]))
              => /\ steps[k].nearestIndex < 0
                 /\ steps[k].after = Append(steps[k].before, steps[k].blob)
                 /\ changed

----------------------------------------------------------------------------
(* C3 *)

\* C3: when several entities are eligible for an observation,
\* findNearestIndex returns the index of the one whose nearness score to
\* that observation is strictly greatest among the eligible ones.
C3_NearestIsPreferred ==
    \A k \in StepIds :
        \A j \in Eligible(k) :
            (/\ Cardinality(Eligible(k)) >= 2
             /\ \A i \in Eligible(k) \ {j} :
                    FGt(Nearness(steps[k].blob, steps[k].before[j + 1]),
                        Nearness(steps[k].blob, steps[k].before[i + 1])))
                => steps[k].nearestIndex = j

----------------------------------------------------------------------------
(* C4 *)

\* C4: the decay step multiplies the Confidence of every entity that was in
\* the store by cfg.MemoryDecayFactor and removes exactly those whose
\* resulting Confidence is less than or equal to cfg.MemoryMinConfidence; an
\* entity whose confidence equals floor / decay factor is evicted by one
\* Update call with no observations.
C4_DecayThenEvict ==
    /\ refreshed = SelectSeq(Decayed(oldBlobs, cfg.MemoryDecayFactor),
                             LAMBDA e : ~FLe(e.Confidence, cfg.MemoryMinConfidence))
    /\ input = <<>> =>
          /\ blobs = refreshed
          /\ \A i \in 1..Len(blobs) : blobs[i].Confidence # cfg.MemoryMinConfidence
          /\ Len(blobs) = Len(oldBlobs) - Cardinality({i \in 1..Len(oldBlobs) :
                 FLe(FMul(oldBlobs[i].Confidence, cfg.MemoryDecayFactor),
                     cfg.MemoryMinConfidence)})

\* a call with no observations on a store holding a blob whose confidence is
\* the floor divided by the decay factor, next to a blob that survives
C4_Witness ==
    /\ input = <<>>
    /\ \E i \in 1..Len(oldBlobs) :
          FMul(oldBlobs[i].Confidence, cfg.MemoryDecayFactor) = cfg.MemoryMinConfidence
    /\ Len(blobs) < Len(oldBlobs)
    /\ Len(blobs) > 0

----------------------------------------------------------------------------
(* C5 *)

\* C5: in mergeAtIndex the override fires exactly when observation.Confidence
\* >= matched.Confidence + cfg.MemoryClassSwitchThreshold (inclusive, the
\* matched confidence being the post-decay value): when it fires the
\* entity's Confidence and Category both become the observation's; when it
\* does not, both are left unchanged by that observation.
C5_OverrideAtMargin ==
    /\ Len(steps) > 0 => steps[1].before = refreshed
    /\ \A k \in StepIds :
          IsMerge(k) =>
              IF MeetsMargin(steps[k].blob, Target(k))
              THEN /\ Merged(k).Confidence = steps[k].blob.Confidence
                   /\ Merged(k).Category = steps[k].blob.Category
              ELSE /\ Merged(k).Confidence = Target(k).Confidence
                   /\ Merged(k).Category = Target(k).Category

\* an observation of another category whose confidence is exactly the
\* decayed confidence of its target plus the margin has overridden it
C5_Witness ==
    \E k \in StepIds :
        /\ IsMerge(k)
        /\ steps[k].before = refreshed
        /\ steps[k].blob.Confidence
              = FAdd(Target(k).Confidence, cfg.MemoryClassSwitchThreshold)
        /\ steps[k].blob.Category # Target(k).Category
        /\ Merged(k).Category = steps[k].blob.Category

----------------------------------------------------------------------------
(* C6 *)

\* the observation of step k started a new entity
Created(k) == Len(steps[k].after) = Len(steps[k].before) + 1

\* the observation of step k changed the Category of its target
Relabelled(k) == IsMerge(k) /\ Merged(k).Category # Target(k).Category

\* C6: Update returns true if and only if at least one observation created
\* a new entity or at least one override changed an entity's Category to a
\* different value; a call in which every observation merges without
\* changing any Category returns false.
C6_ChangedIffCreatedOrRelabelled ==
    changed <=> \E k \in StepIds : Created(k) \/ Relabelled(k)

\* a call that returned false although one of its observations overrode
\* the confidence of its target
C6_Witness ==
    /\ ~changed
    /\ \E k \in StepIds :
          /\ IsMerge(k)
          /\ MeetsMargin(steps[k].blob, Target(k))
          /\ Merged(k).Confidence # Target(k).Confidence
          /\ Merged(k).Position # Target(k).Position

----------------------------------------------------------------------------
(* C7 *)

\* C7: whenever an observation is merged into an entity, whether or not the
\* override fires, each of the entity's four coordinates becomes the
\* truncating integer average (old + observed) / 2.
C7_PositionAveraged ==
    \A k \in StepIds :
        IsMerge(k) =>
            /\ Merged(k).Position.Left
                  = Average(Target(k).Position.Left, steps[k].blob.Position.Left)
            /\ Merged(k).Position.Top
                  = Average(Target(k).Position.Top, steps[k].blob.Position.Top)
            /\ Merged(k).Position.Right
                  = Average(Target(k).Position.Right, steps[k].blob.Position.Right)
            /\ Merged(k).Position.Bottom
                  = Average(Target(k).Position.Bottom, steps[k].blob.Position.Bottom)

\* a merge without override in which an odd sum was truncated
C7_Witness ==
    \E k \in StepIds :
        /\ IsMerge(k)
        /\ ~MeetsMargin(steps[k].blob, Target(k))
        /\ (Target(k).Position.Right + steps[k].blob.Position.Right) % 2 = 1
        /\ Merged(k).Position.Bottom # Target(k).Position.Bottom
        /\ Merged(k).Position.Left # Target(k).Position.Left

----------------------------------------------------------------------------
(* C8 *)

CategoriesOf(bl) == [i \in 1..Len(bl) |-> bl[i].Category]

\* C8: an entity's Category changes only in a step where an observation
\* merged into it meets the class-switch margin; decay and merges below the
\* margin never change an entity's Category.
C8_CategoryChangesOnlyAtMargin ==
    /\ CategoriesOf(refreshed)
          = CategoriesOf(SelectSeq(oldBlobs, LAMBDA e :
                FGt(FMul(e.Confidence, cfg.MemoryDecayFactor), cfg.MemoryMinConfidence)))
    /\ \A k \in StepIds :
          \A i \in 1..Len(steps[k].before) :
              steps[k].after[i].Category # steps[k].before[i].Category
                  => /\ steps[k].nearestIndex = i - 1
                     /\ MeetsMargin(steps[k].blob, steps[k].before[i])

\* an observation of another category merged below the margin into an
\* entity that had just decayed
C8_Witness ==
    \E k \in StepIds :
        /\ IsMerge(k)
        /\ ~MeetsMargin(steps[k].blob, Target(k))
        /\ steps[k].blob.Category # Target(k).Category
        /\ Merged(k).Category = Target(k).Category
        /\ Len(oldBlobs) > 0

----------------------------------------------------------------------------
(* C9 *)

\* the first two observations of the call both match the known blob at
\* store index j after the decay step
BothMatch(j) ==
    /\ Len(input) >= 2
    /\ j < Len(refreshed)
    /\ Matches(input[1], refreshed[j + 1])
    /\ Matches(input[2], refreshed[j + 1])

\* C9: with cfg.MemoryCollapseMultiple = false, when two observations of one
\* Update call both match the same single existing entity, only the first
\* is merged into it; the second is appended as a new entity, so the store
\* has two entities after the call and Update returns true.
C9_SecondStartsNewEntity ==
    (/\ ~cfg.MemoryCollapseMultiple
     /\ Len(input) = 2
     /\ Len(refreshed) = 1
     /\ BothMatch(0))
        => /\ steps[1].nearestIndex = 0
           /\ steps[2].nearestIndex = -1
           /\ Len(blobs) = 2
           /\ blobs[1] = steps[1].after[1]
           /\ blobs[2] = input[2]
           /\ changed

\* such a call, in which the first observation moved the entity
C9_Witness ==
    /\ ~cfg.MemoryCollapseMultiple
    /\ Len(input) = 2
    /\ Len(refreshed) = 1
    /\ BothMatch(0)
    /\ Len(blobs) = 2
    /\ blobs[1].Position # refreshed[1].Position

----------------------------------------------------------------------------
(* C10 *)

\* C10: with cfg.MemoryCollapseMultiple = true, two observations of one
\* Update call that both match the same existing entity are both merged into
\* it in sequence, the second averaging against the position already moved
\* by the first, and no new entity is created.
C10_BothMergeInSequence ==
    \A j \in 0..(Len(refreshed) - 1) :
        (cfg.MemoryCollapseMultiple /\ BothMatch(j))
            => /\ steps[1].nearestIndex = j
               /\ steps[2].nearestIndex = j
               /\ steps[2].before = steps[1].after
               /\ Len(steps[2].after) = Len(refreshed)
               /\ steps[2].after[j + 1].Position.Right
                     = Average(Average(refreshed[j + 1].Position.Right,
                                       input[1].Position.Right),
                               input[2].Position.Right)
               /\ steps[2].after[j + 1].Position.Top
                     = Average(Average(refreshed[j + 1].Position.Top,
                                       input[1].Position.Top),
                               input[2].Position.Top)

\* such a call on a store of two known blobs, the observations matching the
\* second one, which both of them moved
C10_Witness ==
    /\ cfg.MemoryCollapseMultiple
    /\ Len(refreshed) = 2
    /\ BothMatch(1)
    /\ steps[1].after[2].Position # refreshed[2].Position
    /\ steps[2].after[2].Position # steps[1].after[2].Position

----------------------------------------------------------------------------
(* C11 *)

\* C11: each observation of an Update call is matched only against entities
\* that were in the store after the decay step of that call; an entity
\* created earlier in the same call is not a candidate, so two observations
\* fed to an empty store in one call yield two entities.
C11_OnlyPostDecayCandidates ==
    /\ \A k \in StepIds : steps[k].nearestIndex < Len(refreshed)
    /\ (oldBlobs = <<>> /\ Len(input) = 2) => Len(blobs) = 2

----------------------------------------------------------------------------
(* C12 *)

\* C12: Update with a single observation on an empty store leaves exactly
\* one entity whose Category, Confidence and Position equal the
\* observation's (no decay is applied to it in that call), and returns true.
C12_FirstObservationStored ==
    (oldBlobs = <<>> /\ Len(input) = 1)
        => /\ Len(blobs) = 1
           /\ blobs[1].Category = input[1].Category
           /\ blobs[1].Confidence = input[1].Confidence
           /\ blobs[1].Position = input[1].Position
           /\ changed

\* the first call of a session, with one observation above the floor
C12_Witness ==
    /\ oldBlobs = <<>>
    /\ nobs = 1
    /\ Len(input) = 1
    /\ AboveFloor(input[1])
    /\ Len(blobs) = 1

----------------------------------------------------------------------------
(* C13 *)
\* C13: under the default configuration and from an empty store,
\* Update([{Human, 0.80, (0,0,100,100)}]) stores the observation and returns
\* true, and Update([{Human, 0.82, (5,5,105,105)}]) after it leaves exactly
\* one entity, Human with Confidence 0.784 and box (2,2,102,102), and
\* returns false.
C13_EndToEndDefaults ==
    LET first  == Blob(Human, F(4, 5),   Pos(0, 0, 100, 100))
        second == Blob(Human, F(41, 50), Pos(5, 5, 105, 105))
    IN  cfg = DefaultConfig =>
          /\ (nobs = 1 /\ input = <<first>>)
                => (blobs = <<first>> /\ changed)
          /\ (nobs = 2 /\ oldBlobs = <<first>> /\ input = <<second>>)
                => /\ blobs = <<Blob(Human, F(784, 1000), Pos(2, 2, 102, 102))>>
                   /\ ~changed

\* the second call of the scenario has been made
C13_Witness ==
    /\ cfg = DefaultConfig /\ nobs = 2
    /\ oldBlobs = <<Blob(Human, F(4, 5), Pos(0, 0, 100, 100))>>
    /\ input = <<Blob(Human, F(41, 50), Pos(5, 5, 105, 105))>>
    /\ Len(blobs) = 1 /\ IsMerge(1)

RECURSIVE FPow(_, _, _)
FPow(x, y, k) == IF k = 0 THEN x ELSE FPow(FMul(x, y), y, k - 1)

\* C14: when the store holds one entity and k Update calls without
\* observations follow, every one of them returns false, the store never
\* holds more than one entity, and while the initial Confidence times
\* MemoryDecayFactor^k exceeds MemoryMinConfidence the entity is still there
\* with that Confidence and its Category and Position unchanged; otherwise
\* the store is empty, and it stays empty.
C14_DecayUnderSilence ==
    (idle > 0 /\ Len(idleStart) = 1) =>
        LET ck == FPow(idleStart[1].Confidence, cfg.MemoryDecayFactor, idle)
        IN  /\ ~changed
            /\ input = <<>>
            /\ Len(blobs) <= 1
            /\ blobs = IF FGt(ck, cfg.MemoryMinConfidence)
                       THEN <<[idleStart[1] EXCEPT !.Confidence = ck]>>
                       ELSE <<>>
            /\ oldBlobs = <<>> => blobs = <<>>

\* the single entity has lived through two calls without observations
C14_Witness ==
    /\ idle = 2 /\ Len(idleStart) = 1 /\ Len(blobs) = 1
    /\ blobs[1].Confidence = FPow(idleStart[1].Confidence, cfg.MemoryDecayFactor, 2)

C17_EvictionIsTerminal ==
    [][ /\ \A j \in 1..Len(ids) : ids[j] <= nobs
        /\ Len(ids') = Len(blobs')
        /\ Len(refreshed') <= Len(ids')
        /\ \A i \in 1..Len(ids') :
              IF i <= Len(refreshed')
              THEN \E j \in 1..Len(ids) :
                      /\ ids'[i] = ids[j]
                      /\ refreshed'[i] = [blobs[j] EXCEPT
                             !.Confidence = FMul(@, cfg.MemoryDecayFactor)]
                      /\ FGt(refreshed'[i].Confidence, cfg.MemoryMinConfidence)
              ELSE /\ ids'[i] > nobs
                   /\ ids'[i] <= nobs'
                   /\ steps'[ids'[i] - nobs].nearestIndex < 0
        /\ \A j \in 1..Len(ids) :
              ~FGt(FMul(blobs[j].Confidence, cfg.MemoryDecayFactor), cfg.MemoryMinConfidence)
                  => \A i \in 1..Len(ids') : ids'[i] # ids[j]
        /\ \A i1, i2 \in 1..Len(ids') : ids'[i1] = ids'[i2] => i1 = i2
      ]_vars

\* the last call evicted an entity and created another one
C17_Witness ==
    /\ Len(refreshed) < Len(oldBlobs)
    /\ \E k \in StepIds : steps[k].nearestIndex < 0
    /\ Len(ids) = Len(blobs) /\ ids # <<>>
    /\ \A i \in 1..Len(ids) : ids[i] > nobs - Len(input) \/ i <= Len(refreshed)

(* C18 *)

\* C18: with cfg.MemoryCollapseMultiple = false, within one Update call no
\* entity is the merge target of more than one observation.
C18_OneMergePerEntity ==
    ~cfg.MemoryCollapseMultiple =>
        \A k1, k2 \in StepIds :
            (k1 < k2 /\ IsMerge(k1) /\ IsMerge(k2))
                => steps[k1].nearestIndex # steps[k2].nearestIndex

\* a call on two known blobs whose first observation merged into the only
\* one findNearestIndex can return, which the second could then not claim
C18_Witness ==
    /\ ~cfg.MemoryCollapseMultiple
    /\ Len(refreshed) = 2
    /\ Len(steps) = 2
    /\ IsMerge(1)
    /\ steps[2].merged = {steps[1].nearestIndex}
    /\ ~IsMerge(2)

(* C19 *)
\* C19: for every class id ParseClassID returns one category whatever the
\* order in which the map is iterated: the category whose range contains the
\* id (1 is Human, 2..9 Vehicle, 16..25 Animal, and every id of 1..91 has
\* one), and Unknown for an id outside all ranges; the ranges are pairwise
\* disjoint.
C19_ParseClassIDUnique ==
    LET owners == {c \in DOMAIN categoryRanges :
                      classId \in categoryRanges[c].start..categoryRanges[c].end}
    IN  /\ \A c1, c2 \in DOMAIN categoryRanges :
              c1 # c2 => (categoryRanges[c1].start..categoryRanges[c1].end)
                           \cap (categoryRanges[c2].start..categoryRanges[c2].end) = {}
        /\ Cardinality(ParseClassID(classId)) = 1
        /\ Cardinality(owners) <= 1
        /\ category = IF owners = {} THEN Unknown ELSE CHOOSE c \in owners : TRUE
        /\ classId = 1 => category = Human
        /\ classId \in 2..9 => category = Vehicle
        /\ classId \in 16..25 => category = Animal
        /\ classId \in 84..91 => category = Indoor
        /\ (category = Unknown) <=> (classId < 1 \/ classId > 91)

\* an id of the Animal range has been classified
C19_Witness == classId = 20 /\ category = Animal

(* C20 *)
\* C20: in every state of the detection loop every entity of the store has
\* category Human or Animal: Known holds for these two categories only,
\* performBlob hands on exactly the detections above the minimum confidence
\* whose class id is one of Human or Animal, and the store after the decay
\* and after the Update call holds tracked categories only.
C20_OnlyTrackedCategories ==
    LET tracked == {Human, Animal}
        passes(row) == /\ FGt(row.confidence, cfg.MinConfidence)
                       /\ (row.classId = 1 \/ row.classId \in 16..25)
    IN  /\ \A c \in Unknown..Indoor : Known(c) <=> c \in tracked
        /\ Len(input) = Len(SelectSeq(results, passes))
        /\ \A k \in 1..Len(input) : input[k].Category \in tracked
        /\ \A i \in 1..Len(refreshed) : refreshed[i].Category \in tracked
        /\ \A i \in 1..Len(blobs) : blobs[i].Category \in tracked

\* a frame with a person and a car, both above the minimum confidence: the
\* car is dropped and the person is stored
C20_Witness ==
    /\ Len(results) = 2
    /\ \E k \in 1..2 : /\ ParseClassID(results[k].classId) = {Vehicle}
                       /\ FGt(results[k].confidence, cfg.MinConfidence)
    /\ Len(input) = 1 /\ input[1].Category = Human
    /\ blobs # <<>>

(* C21 *)
\* C21: the observations performBlob hands to Update are exactly the rows
\* of the detector's output with a known class and a confidence strictly
\* greater than cfg.MinConfidence; hence an entity created from an
\* observation, or overridden by one, has at that moment a Confidence
\* strictly greater than cfg.MinConfidence.
C21_AdmittedAboveMinConfidence ==
    /\ \A k \in 1..Len(input) : FGt(input[k].Confidence, cfg.MinConfidence)
    /\ \A i \in 1..Len(results) :
          ~FGt(results[i].confidence, cfg.MinConfidence)
              => \A k \in 1..Len(input) :
                    input[k].Confidence # results[i].confidence
    /\ \A k \in StepIds :
          LET s == steps[k]
          IN  /\ s.nearestIndex < 0
                    => FGt(s.after[Len(s.after)].Confidence, cfg.MinConfidence)
              /\ (s.nearestIndex >= 0
                    /\ s.after[s.nearestIndex + 1].Confidence
                         # s.before[s.nearestIndex + 1].Confidence)
                    => FGt(s.after[s.nearestIndex + 1].Confidence, cfg.MinConfidence)

\* a frame with a row at exactly the minimum confidence, which is dropped,
\* and a row above it, which creates an entity
C21_Witness ==
    /\ \E i \in 1..Len(results) : results[i].confidence = cfg.MinConfidence
    /\ \E k \in StepIds : steps[k].nearestIndex < 0
    /\ Len(input) < Len(results)

(* C22 *)
\* C22: the step that hands a frame to Update leaves the goroutine offering
\* an event on the detection channel if and only if Update returned true,
\* and that event carries the store as it is right after the call; no other
\* step makes it offer an event, and the event NextBatch receives is the
\* one offered, the store being still the same.
C22_EventIffChanged ==
    [][ /\ nframes' = nframes + 1
            => /\ (gpc' = "sendEvent") <=> changed'
               /\ gpc' = "sendEvent" => offer'.event.Blobs = blobs'
        /\ nframes' = nframes
            => /\ gpc' = "sendEvent" => gpc = "sendEvent"
               /\ gpc' = "sendEvent" => offer' = offer /\ blobs' = blobs
        /\ Len(sent') > Len(sent)
            => /\ gpc = "sendEvent"
               /\ sent' = Append(sent, [Blobs |-> blobs])
      ]_vars

\* the second frame changed the store again, after the event of the first
\* frame had been received
C22_Witness ==
    /\ gpc = "sendEvent" /\ nframes = 2 /\ changed
    /\ Len(sent) = 1 /\ blobs # <<>> /\ offer.event.Blobs = blobs

(* C23 *)
\* C23: for two centers with strictly positive coordinates Near(a, b) is
\* (min(ax,bx)/max(ax,bx)) * (min(ay,by)/max(ay,by)); it is greater than 0
\* and at most 1, it is 1 exactly when a = b, and Near(b, a) is the same.
C23_NearOfPositiveCenters ==
    LET a == measured.centerA
        b == measured.centerB
        minOf(u, v) == IF u <= v THEN u ELSE v
        maxOf(u, v) == IF u <= v THEN v ELSE u
    IN  (measured.done /\ a.x > 0 /\ a.y > 0 /\ b.x > 0 /\ b.y > 0) =>
          /\ measured.near = F(minOf(a.x, b.x) * minOf(a.y, b.y),
                               maxOf(a.x, b.x) * maxOf(a.y, b.y))
          /\ FGt(measured.near, F(0, 1))
          /\ FLe(measured.near, F(1, 1))
          /\ (measured.near = F(1, 1)) <=> (a = b)
          /\ measured.nearBack = measured.near

\* two different centers with positive coordinates have been compared
C23_Witness ==
    /\ measured.done
    /\ measured.centerA = [x |-> 1, y |-> 2] /\ measured.centerB = [x |-> 2, y |-> 1]
    /\ measured.near = F(1, 4)

(* C24 *)
\* C24: the center of a box depends on its width and height only, so an
\* observation and an entity of equal width and height have the same center
\* and nearness 1.0, and the observation is merged into an entity with its
\* center when that entity is still open to a merge.
C24_SameSizeMatches ==
    \A k \in StepIds : \A i \in 1..Len(steps[k].before) :
        LET o == steps[k].blob
            e == steps[k].before[i]
        IN  (/\ o.Position.Right - o.Position.Left = e.Position.Right - e.Position.Left
             /\ o.Position.Bottom - o.Position.Top = e.Position.Bottom - e.Position.Top)
            => /\ Center(o.Position) = Center(e.Position)
               /\ Nearness(o, e) = F(1, 1)
               /\ (i - 1) \notin steps[k].merged
                     => /\ IsMerge(k)
                        /\ Center(Target(k).Position) = Center(o.Position)

C26_OutOfRangeRejected ==
    mcfg # Nil =>
        /\ \A k \in {"MinConfidence", "MemoryMinConfidence",
                     "MemoryNearnessThreshold", "MemoryClassSwitchThreshold"} :
              FGe(mcfg[k], F(0, 1)) /\ FLe(mcfg[k], F(1, 1))
        /\ FGe(mcfg.MemoryDecayFactor, F(0, 1))

(* C27 *)
\* C27: once Close has been called the goroutine eventually has terminated,
\* its three channels closed, wherever it stood, with no further NextBatch call.
C27_CloseTerminatesGoroutine ==
    closeCalled ~> (gpc = "done" /\ closedChans = {"error", "render", "detection"})

(* C28 *)
\* C28: a NextBatch call that returns (1, nil) returns an event the
\* goroutine sent, which holds at least one blob, and no NextBatch call
\* returns (0, nil).
C28_OnlySentEvents ==
    ret # NoReturn =>
        /\ ret.n = 1 => /\ sent # <<>>
                        /\ ret.payload = sent[Len(sent)]
                        /\ ret.payload.Blobs # <<>>
        /\ ~(ret.n = 0 /\ ret.err = "nil")

C30_CloseDoesNotBlock ==
    /\ ~closeCalled => Len(quitc) < QuitCapacity
    /\ closeCalled => quitClosed
    /\ Len(quitc) <= QuitCapacity

\* Close has returned while the goroutine is blocked on the send of the
\* open-capture error
C30_Witness ==
    /\ closeCalled /\ quitClosed /\ gpc = "sendOpenErr" /\ quitc = <<TRUE>>

(* C31 *)
\* C31: in the standalone program, once a termination signal was delivered
\* the detection goroutine eventually has exited and main's wg.Wait has
\* returned, wherever the goroutine stood when the signal arrived.
C31_SignalEndsProgram ==
    signalled ~> (gpc = "done" /\ wg = 0 /\ mainpc # "wait")

(* C32 *)
\* every slice an event carried still holds what it held when it was sent
SnapshotsStable ==
    \A i \in 1..Len(sentSlices) :
        SliceElems(heap.arrays, sentSlices[i].slice) = sentSlices[i].held

SurvivorIndexes(bl, c) ==
    SelectSeq([j \in 1..Len(bl) |-> j],
              LAMBDA j : FGt(FMul(bl[j].Confidence, c.MemoryDecayFactor),
                             c.MemoryMinConfidence))

\* the store index (0-based) was the merge target of an observation of the
\* last call
IsTarget(i) == \E k \in StepIds : steps[k].nearestIndex = i

\* C33: an entity that survives the decay step of an Update call and is the
\* merge target of none of its observations keeps its Category and its
\* Position, and its Confidence after the call is its Confidence before the
\* call times cfg.MemoryDecayFactor.
C33_UnmergedSurvivorOnlyDecays ==
    LET surv == SurvivorIndexes(oldBlobs, cfg)
    IN  /\ Len(surv) <= Len(blobs)
        /\ \A i \in 1..Len(surv) :
              ~IsTarget(i - 1) =>
                  /\ blobs[i].Category = oldBlobs[surv[i]].Category
                  /\ blobs[i].Position = oldBlobs[surv[i]].Position
                  /\ blobs[i].Confidence =
                         FMul(oldBlobs[surv[i]].Confidence, cfg.MemoryDecayFactor)

\* a call in which one of two survivors was merged with an observation and
\* the other, left alone, only decayed
C33_Witness ==
    /\ Len(SurvivorIndexes(oldBlobs, cfg)) = 2
    /\ Len(oldBlobs) > 2
    /\ \E k \in StepIds : IsMerge(k)
    /\ \E i \in 1..2 : ~IsTarget(i - 1) /\ blobs[i].Confidence # oldBlobs[SurvivorIndexes(oldBlobs, cfg)[i]].Confidence

(* C34 *)
\* the steps of the last call that appended their observation
Creations == {k \in StepIds : ~IsMerge(k)}

\* step k left every entity but the one at index i (0-based) as it was
OnlyChanged(k, i) ==
    /\ Len(steps[k].after) = Len(steps[k].before)
    /\ \A j \in 1..Len(steps[k].before) :
          j # i + 1 => steps[k].after[j] = steps[k].before[j]

\* C34: each observation of an Update call either appends one entity equal
\* to it or merges into exactly one entity of the store, leaving the others
\* as they were; the store after the call holds the survivors of the decay
\* plus one entity per observation that created one, hence at most the
\* survivors plus the observations.
C34_OneEffectPerObservation ==
    /\ Len(steps) = Len(input)
    /\ \A k \in StepIds :
          /\ steps[k].blob = input[k]
          /\ steps[k].before = IF k = 1 THEN refreshed ELSE steps[k - 1].after
          /\ IF IsMerge(k)
             THEN /\ steps[k].nearestIndex < Len(steps[k].before)
                  /\ OnlyChanged(k, steps[k].nearestIndex)
             ELSE steps[k].after = Append(steps[k].before, steps[k].blob)
    /\ blobs = IF steps = <<>> THEN refreshed ELSE steps[Len(steps)].after
    /\ Len(blobs) = Len(refreshed) + Cardinality(Creations)
    /\ Len(blobs) <= Len(refreshed) + Len(input)

\* a call on a store with a survivor whose first observation was merged and
\* whose second created an entity
C34_Witness ==
    /\ refreshed # <<>>
    /\ Len(steps) = 2
    /\ IsMerge(1) /\ Merged(1) # Target(1)
    /\ ~IsMerge(2)
    /\ Len(blobs) = Len(refreshed) + 1

(* C35 *)
\* C35: Update keeps the store ordered.  The survivors of the decay stand
\* in the order they had before the call; no step of the loop removes or
\* moves an entity, so an index keeps referring to the entity it referred
\* to; an entity created by an observation is placed at the end of the store
\* of that moment, after the survivors and after the entities created by
\* earlier observations; the keys of the merged map are indexes of the
\* store, are never dropped, and the entities they refer to are not written
\* again until the call returns.
C35_StoreStaysOrdered ==
    LET surv == SurvivorIndexes(oldBlobs, cfg)
    IN  /\ Len(refreshed) = Len(surv)
        /\ \A i \in 1..Len(surv) :
              refreshed[i] = [oldBlobs[surv[i]] EXCEPT
                                 !.Confidence = FMul(@, cfg.MemoryDecayFactor)]
        /\ \A k \in StepIds :
              /\ Len(steps[k].after) >= Len(steps[k].before)
              /\ \A j \in 1..Len(steps[k].before) :
                    j # steps[k].nearestIndex + 1
                        => steps[k].after[j] = steps[k].before[j]
              /\ ~IsMerge(k) =>
                    /\ Len(steps[k].after) = Len(steps[k].before) + 1
                    /\ steps[k].after[Len(steps[k].after)] = steps[k].blob
                    /\ Len(steps[k].after) =
                           Len(refreshed) + Cardinality({c \in Creations : c <= k})
              /\ steps[k].merged \subseteq 0..(Len(steps[k].before) - 1)
              /\ \A i \in steps[k].merged :
                    /\ steps[k].after[i + 1] = steps[k].before[i + 1]
                    /\ k < Len(steps) => i \in steps[k + 1].merged

\* a call that evicted the first of two entities, merged an observation
\* into the survivor and recorded its index, and created an entity from
\* the next observation
C35_Witness ==
    /\ Len(oldBlobs) = 2
    /\ SurvivorIndexes(oldBlobs, cfg) = <<2>>
    /\ Len(steps) = 2
    /\ IsMerge(1) /\ steps[2].merged = {steps[1].nearestIndex}
    /\ ~IsMerge(2)

(* C36 *)
\* the strings of the model that are equal up to the case of their letters
SameIgnoringCase(s, t) ==
    \/ s = t
    \/ {s, t} \subseteq {"Human", "human", "HUMAN"}
    \/ {s, t} \subseteq {"Animal", "aNIMAL"}

\* the name of a blob's category: that of Human and Animal, empty otherwise
CategoryName(blob) ==
    CASE blob.Category = Human -> "Human"
      [] blob.Category = Animal -> "Animal"
      [] OTHER -> ""

\* C36: on an event whose payload decodes, Extract for field 0 sets the
\* number of blobs of the payload when the request has no argument, and the
\* number of blobs whose category name equals the argument up to case when
\* it has one; for field 1 it sets the payload's video source, for field 2
\* its snapshot path; for any other field id it returns an 'unsupported
\* field' error and sets no value.
C36_ExtractFields ==
    (extraction.done /\ extraction.decodes) =>
        LET p == extraction.payload
            out == extraction.out
        IN  CASE extraction.fieldID = 0 ->
                    /\ Fields[1].Name = "homesecurity.blob"
                    /\ out.err = "nil" /\ out.set
                    /\ out.value =
                         IF extraction.arg = "" THEN Len(p.Blobs)
                         ELSE Cardinality({i \in 1..Len(p.Blobs) :
                                  SameIgnoringCase(CategoryName(p.Blobs[i]), extraction.arg)})
              [] extraction.fieldID = 1 ->
                    /\ Fields[2].Name = "homesecurity.source"
                    /\ out.err = "nil" /\ out.set /\ out.value = p.VideoSource
              [] extraction.fieldID = 2 ->
                    /\ Fields[3].Name = "homesecurity.snapshot"
                    /\ out.err = "nil" /\ out.set /\ out.value = p.SnapshotPath
              [] OTHER ->
                    /\ extraction.fieldID + 1 \notin DOMAIN Fields
                    /\ out.err = "unsupported field" /\ ~out.set

\* a payload with a person and a vehicle, whose people were counted under
\* the argument HUMAN
C36_Witness ==
    /\ extraction.done /\ extraction.decodes
    /\ extraction.fieldID = 0 /\ extraction.arg = "HUMAN"
    /\ Len(extraction.payload.Blobs) = 2
    /\ extraction.payload.Blobs[1].Category = Human
    /\ extraction.payload.Blobs[2].Category = Vehicle
    /\ extraction.out.value = 1

(* C37 *)
\* C37: after k Push calls on a Ring of size n > 0 the cursor is k mod n,
\* hence within 0..n-1; the slot (p - 1) mod n holds the p-th pushed value
\* for each of the last min(k, n) pushes, and the slots never written hold 0.
C37_RingHoldsLastValues ==
    LET n == Len(ring.vals)
        k == Len(pushed)
        last == IF k < n THEN k ELSE n
    IN  /\ n > 0
        /\ ring.cursor \in 0..(n - 1)
        /\ ring.cursor = k % n
        /\ \A p \in (k - last + 1)..k : ring.vals[((p - 1) % n) + 1] = pushed[p]
        /\ \A i \in (k + 1)..n : ring.vals[i] = 0

\* a Ring of size 3 after four pushes: the first value was overwritten
C37_Witness ==
    /\ Len(ring.vals) = 3
    /\ pushed = <<1, 2, 1, 2>>
    /\ ring.vals = <<2, 2, 1>>
    /\ ring.cursor = 1

====
